---------------------------- MODULE Spec2Model ----------------------------
(***************************************************************************)
(* Verification model of the intc_wrs ground-vehicle controller.           *)
(*                                                                         *)
(* The module holds several state machines, each with its own              *)
(* specification; the machines not run by a specification stay idle:       *)
(*   SpecApp     RpiRobotApp (app_rpi.py): input polling, handle_event,    *)
(*               the loop_hw control loop and the two actuation sinks.     *)
(*   SpecBus     the same, with motor bus writes that may raise OSError.   *)
(*   SpecLogic   LogicController (v3/control/logic_controller.py).         *)
(*   SpecCache   the latest-value sensor caches and their producer and     *)
(*               consumer threads.                                         *)
(*   SpecYaw     ImuSensor alone, with tare_yaw and align_yaw.             *)
(*   SpecDecoder the two WitMotion 0x55 0x61 frame decoders.               *)
(*   SpecFrame   the decoders on one frame with varying trailing bytes.    *)
(*   SpecMixer   mix_skid over a grid of arguments.                        *)
(*   SpecAxis    one raw axis value through both input sources.            *)
(*   SpecThreads the run loops of the worker threads and the logger.       *)
(*   SpecLogger  DataLogger.stop() against the logger thread's run loop.   *)
(*   SpecManual  ManualInput.get_control against the keyboard thread.      *)
(*   SpecMain    the control loop of v2/main.py, its shutdown, and the     *)
(*               pin writes of ActuatorControl (board/actuators.py).       *)
(*                                                                         *)
(* Numbers.  Normalised control values (floats in [-1, 1] in the code) are *)
(* exact fixed-point integers with UNIT standing for 1.0.  UNIT is         *)
(* 20 * 32767 so that the 0.1 speed step, the 0.05 deadzone and every      *)
(* raw / 32767.0 joystick value are integers.  Binary floating-point       *)
(* rounding is not modelled.                                               *)
(***************************************************************************)
EXTENDS Integers, Sequences, FiniteSets, TLC

VARIABLES
    \* ---- RpiRobotApp -------------------------------------------------
    speed,          \* self.speed   (fixed point)
    steer,          \* self.steer   (fixed point)
    rx,             \* self.rx      (fixed point)
    mode,           \* self.mode
    running,        \* self.running
    hw_ok,          \* self.hw_ok
    input_source,   \* self.input_source: "keyboard", "joystick" or "none"
    joy_connected,  \* self.joystick.is_connected
    axis_states,    \* self.joystick.axis_states (fixed point per axis name)
    since_send,     \* min(now - last_send, period) of loop_hw, in ms
    servo_pw,       \* pulse width last written to the servo pin (0 = released)
    motor_payload,  \* payload last written to the motor bus (<<>> = none yet)
    last_op,        \* sink operation performed by the latest step
    e_stopped,      \* history: handle_event has processed an e_stop event
    pc,             \* position of the main thread in loop_hw
    tick_axis,      \* history: the axis events handled in the current tick
    tick_servo,     \* history: servo.write_angle calls of the current tick
    gap,            \* history: ms since the latest motor.write_lr, capped
                    \* at two periods (-1 = none yet)
    bus_warned,     \* history: the motor.write_lr of the current tick caught
                    \* an OSError and printed its warning
    \* ---- LogicController --------------------------------------------
    lc_mode,          \* self.mode
    manual_throttle,  \* self.manual_throttle (tenths)
    manual_steering,  \* self.manual_steering (tenths)
    lidar_data,       \* self.lidar_data: sequence of <<angle, dist_mm>>
    act_throttle,     \* last actuators.set_throttle argument ("none" = never)
    act_steering,     \* last actuators.set_steering argument ("none" = never)
    lc_is_safe,       \* is_safe of the latest _safety_check ("none" = never)
    lc_fresh,         \* history: no input changed since the latest execute_step
    \* ---- sensor caches ----------------------------------------------
    imu_lock,      \* ImuSensor.data_lock: "free" or the holder
    imu_latest,    \* ImuSensor.latest_data
    raw_yaw,       \* ImuSensor.raw_yaw (degrees)
    yaw_offset,    \* ImuSensor.yaw_offset (degrees)
    imu_pc,        \* position of the BLE thread in _notification_handler
    imu_pending,   \* the handler's locals: roll, pitch, yaw, now
    imu_count,     \* notifications stored so far (the clock of `now`)
    gps_lock,      \* GpsSensor.data_lock: "free" or the holder
    gps_latest,    \* GpsSensor.latest_data
    gps_pc,        \* position of the GPS thread in _process_nav_pvt
    gps_pending,   \* the NAV-PVT message being processed, and now
    gps_count,     \* messages stored so far
    wit_latest,    \* GpsImuSensor.latest_data (updated in place, no lock)
    wit_count,     \* samples stored so far
    rd_pc,         \* position of the consumer thread in a get_data call
    snap,          \* the record the latest get_data returned
    cache_hist,    \* history: per cache, every complete record it has held
    \* ---- composite-frame decoders -----------------------------------
    stream,        \* the bytes the sensor sends in this behaviour
    fed,           \* how many of them have been delivered in notifications
    note,          \* data of the latest notification
    note_pc,       \* "idle", "dm" (DeviceModel next) or "wit" (GpsImuSensor next)
    TempBytes,     \* DeviceModel.TempBytes
    dm_out,        \* samples DeviceModel handed to its callback, in order
    data_buffer,   \* GpsImuSensor.data_buffer
    wit_out,       \* samples GpsImuSensor stored, in order
    \* ---- mix_skid called on its own ---------------------------------
    mx_throttle,   \* the throttle argument
    mx_turn,       \* the turn argument
    mx_out,        \* the returned pair, as [l, r, m] for (l / m, r / m)
    mx_pc,         \* "call" before the call, "done" after, "idle" if unused
    \* ---- one raw axis value through both input sources --------------
    ax_raw,        \* the signed 16-bit value of a js axis event
    ax_js,         \* the axis value JoystickInput.poll puts in its event
    ax_mi,         \* the axis value ManualInput._poll_joystick keeps
    ax_pc,         \* "call" before the conversion, "done" after, or "idle"
    \* ---- one worker thread: its run loop, stop() and its callers -----
    th,            \* which thread object runs: "gps", "lidar", "imu",
                   \* "manual", "logger", or "none"
    th_pc,         \* position of the thread in its run loop
    th_running,    \* self.running
    th_conn,       \* the port / device / client is open (Lidar: is_connected)
    th_cache,      \* cache entry as the number of the sample it holds;
                   \* 0 is the initial entry and LidarSensor's empty scan
    th_seq,        \* samples stored so far
    th_snap,       \* what the latest get_data returned
    data_queue,    \* DataLogger.data_queue
    lg_warned,     \* history: log_data has taken its queue.Full branch
    th_good,       \* history: number of the last successfully stored sample
    th_stop_at,    \* history: th_pc at the first stop() call, or "none"
    \* ---- v2/main.py and ActuatorControl ------------------------------
    mn_pc,         \* position of the main thread in main()
    mn_exit,       \* history: how the control loop was left, or "none"
    mn_logger,     \* main's logger is not None
    act_speed,     \* argument of the set_throttle call in progress (tenths)
    act_step,      \* pin and duty writes that call has made so far
    pins,          \* levels of the four H-bridge direction pins
    duty,          \* PWM duty cycle of the two enable pins
    servo_on,      \* the steering servo receives pulses
    mn_log,        \* history: calls main has made since it left the loop
    \* ---- ManualInput in keyboard mode (v2/input/manual_input.py) -----
    mi_throttle,   \* self.throttle (tenths)
    mi_steering,   \* self.steering (tenths)
    gc_pc,         \* position of the main thread inside get_control
    gc_local,      \* current_throttle, current_steering of that call
    gc_ret,        \* what the latest get_control returned
    mi_fresh,      \* history: fields written by a key since get_control
                   \* last read them
    mi_lost,       \* history: get_control has reset a field to 0 over a
                   \* non-zero value no get_control had read
    \* ---- DataLogger shutdown (v2/logging/data_logger.py) -------------
    lg_queue,      \* self.data_queue, as the numbers of the queued records
    lg_running,    \* self.running
    lg_writer,     \* self.csv_writer is not None
    lg_file,       \* self.csv_file: "open", or "closed" (closed, then None)
    lg_rows,       \* the records written to the file, in order
    run_pc,        \* position of the logger thread in run
    run_data,      \* `data` of the run loop (0 = none)
    stop_pc,       \* position of the main thread in stop
    lg_next,       \* number of the next record log_data is given
    lg_accepted,   \* history: records queued before stop() was called
    lg_late_write, \* history: writerow was called on the closed file
    \* ---- yaw calibration of ImuSensor --------------------------------
    cal_op         \* history: the latest tare_yaw / align_yaw call

appVars == <<speed, steer, rx, mode, running, hw_ok, input_source,
             joy_connected, axis_states, since_send, servo_pw,
             motor_payload, last_op, e_stopped, pc, tick_axis, tick_servo,
             gap, bus_warned>>

lcVars == <<lc_mode, manual_throttle, manual_steering, lidar_data,
            act_throttle, act_steering, lc_is_safe, lc_fresh>>

\* the variables of the other machines, which a machine's steps leave alone
cacheVars == <<imu_lock, imu_latest, raw_yaw, yaw_offset, imu_pc, imu_pending,
               imu_count, gps_lock, gps_latest, gps_pc, gps_pending,
               gps_count, wit_latest, wit_count, rd_pc, snap, cache_hist>>

decVars == <<stream, fed, note, note_pc, TempBytes, dm_out, data_buffer,
             wit_out>>

mixVars == <<mx_throttle, mx_turn, mx_out, mx_pc>>

axVars == <<ax_raw, ax_js, ax_mi, ax_pc>>
mainVars == <<mn_pc, mn_exit, mn_logger, act_speed, act_step, pins, duty,
              servo_on, mn_log>>

miVars == <<mi_throttle, mi_steering, gc_pc, gc_local, gc_ret, mi_fresh,
            mi_lost>>

lgVars == <<lg_queue, lg_running, lg_writer, lg_file, lg_rows, run_pc,
            run_data, stop_pc, lg_next, lg_accepted, lg_late_write>>

thVars == <<th, th_pc, th_running, th_conn, th_cache, th_seq, th_snap,
            data_queue, lg_warned, th_good, th_stop_at>>

appOthers == <<lcVars, cacheVars, decVars, mixVars, axVars, thVars, cal_op,
          mainVars, miVars, lgVars>>
lcOthers == <<appVars, cacheVars, decVars, mixVars, axVars, thVars, cal_op,
          mainVars, miVars, lgVars>>
cacheOthers == <<appVars, lcVars, decVars, mixVars, axVars, thVars, cal_op,
          mainVars, miVars, lgVars>>
decOthers == <<appVars, lcVars, cacheVars, mixVars, axVars, thVars, cal_op,
          mainVars, miVars, lgVars>>
mixOthers == <<appVars, lcVars, cacheVars, decVars, axVars, thVars, cal_op,
          mainVars, miVars, lgVars>>
axOthers == <<appVars, lcVars, cacheVars, decVars, mixVars, thVars, cal_op,
          mainVars, miVars, lgVars>>

thOthers == <<appVars, lcVars, cacheVars, decVars, mixVars, axVars, cal_op,
          mainVars, miVars, lgVars>>

calOthers == <<appVars, lcVars, decVars, mixVars, axVars, thVars, mainVars,
          miVars, lgVars>>

miOthers == <<appVars, lcVars, cacheVars, decVars, mixVars, axVars, thVars,
              cal_op, mainVars, lgVars>>

lgOthers == <<appVars, lcVars, cacheVars, decVars, mixVars, axVars, thVars,
              cal_op, mainVars, miVars>>

mainOthers == <<appVars, lcVars, cacheVars, decVars, mixVars, axVars, thVars,
                cal_op, miVars, lgVars>>

vars == <<appVars, lcVars, cacheVars, decVars, mixVars, axVars, thVars,
          cal_op, mainVars, miVars, lgVars>>

-----------------------------------------------------------------------------
(* constants.py and literals of the code                                     *)

AXIS_MAX == 32767
MAX_MOTOR_SPEED == 50
CTRL_HZ == 50
SLEEP_MS == 10
SERVO_MIN_US == 1000
SERVO_MAX_US == 2000
SERVO_MIN_DEG == 0
SERVO_MAX_DEG == 180

UNIT == 20 * AXIS_MAX          \* fixed-point 1.0
SPEED_STEP == UNIT \div 10     \* the 0.1 of inc_speed / dec_speed
DEADZONE == UNIT \div 20       \* DEADZONE = 0.05
PERIOD_MS == 1000 \div CTRL_HZ \* period = 1.0 / max(1.0, CTRL_HZ)

MODE_BUTTON == "BUTTON"
MODE_JOYSTICK == "JOYSTICK"
MODE_SENSOR == "SENSOR"

Abs(v) == IF v < 0 THEN -v ELSE v
Max2(a, b) == IF a >= b THEN a ELSE b
Min2(a, b) == IF a <= b THEN a ELSE b
\* Python int(): truncation toward zero of the exact quotient n / d, d > 0
TruncDiv(n, d) == IF n >= 0 THEN n \div d ELSE -((-n) \div d)

-----------------------------------------------------------------------------
(* inputs/joystick_input.py                                                  *)

clamp(v, lo, hi) == Max2(lo, Min2(hi, v))

\* Mutant of apply_deadzone: values outside the deadzone are shifted toward
\* zero by the threshold.
apply_deadzone_shifted(v, dz) ==
    IF Abs(v) < dz THEN 0 ELSE IF v > 0 THEN v - dz ELSE v + dz

apply_deadzone(v, dz) == IF Abs(v) < dz THEN 0 ELSE v

\* raw / 32767.0 clamped to [-1, 1]; raw * 20 is raw / 32767 in fixed point
norm_axis_value(raw) == Max2(-UNIT, Min2(UNIT, raw * 20))

\* Raw 16-bit values the joystick device reports in this model.
RawAxis == {-32768, -1000, 0, 16384, 32767}
\* Axis names of the device: the three tracked ones and one untracked.
AxisNames == {"x", "y", "rx", "z"}
\* One 8-byte js event read by poll, or "none" when nothing is pending.
JsReads ==
    {[kind |-> "none"]}
    \cup {[kind |-> "axis", name |-> n, raw |-> r] :
            n \in {"x", "y", "rx"}, r \in RawAxis}
    \cup {[kind |-> "axis", name |-> "z", raw |-> r] : r \in {0, 32767}}
    \cup {[kind |-> "button", name |-> b, value |-> v] :
            b \in {"a", "b"}, v \in {0, 1}}

AxisEvent(states) ==
    [type |-> "axis",
     x  |-> clamp(apply_deadzone(states["x"], DEADZONE), -UNIT, UNIT),
     y  |-> clamp(apply_deadzone(states["y"], DEADZONE), -UNIT, UNIT),
     rx |-> clamp(apply_deadzone(states["rx"], DEADZONE), -UNIT, UNIT)]

\* Mutant of JoystickPoll: every axis read emits the combined event, whether
\* the axis state changed or not.
JoystickPoll_every_read(connected, states, rd) ==
    IF ~connected THEN [states |-> states, events |-> <<>>]
    ELSE IF rd.kind = "axis" THEN
        LET ns == [states EXCEPT ![rd.name] = norm_axis_value(rd.raw)]
        IN  [states |-> ns, events |-> <<AxisEvent(ns)>>]
    ELSE IF rd.kind = "button" THEN
        [states |-> states,
         events |-> IF rd.value # 0 /\ rd.name = "b"
                    THEN <<[type |-> "sys", action |-> "e_stop"]>>
                    ELSE <<>>]
    ELSE [states |-> states, events |-> <<>>]

\* JoystickInput.poll: the new axis_states and the events returned.
JoystickPoll(connected, states, rd) ==
    IF ~connected THEN [states |-> states, events |-> <<>>]
    ELSE IF rd.kind = "axis" THEN
        LET v == norm_axis_value(rd.raw)
            changed == states[rd.name] # v
            ns == [states EXCEPT ![rd.name] = v]
        IN  [states |-> ns,
             events |-> IF changed THEN <<AxisEvent(ns)>> ELSE <<>>]
    ELSE IF rd.kind = "button" THEN
        [states |-> states,
         events |-> IF rd.value # 0 /\ rd.name = "b"
                    THEN <<[type |-> "sys", action |-> "e_stop"]>>
                    ELSE <<>>]
    ELSE [states |-> states, events |-> <<>>]

-----------------------------------------------------------------------------
(* inputs/keyboard_input.py                                                  *)

\* What one poll reads from the terminal: a key, a complete arrow escape
\* sequence, or nothing.
Keys == {"none", "1", "2", "x", "up", "down", "left", "right", "space", "s"}

KeyboardPoll(key) ==
    CASE key = "1" -> <<[type |-> "sys", action |-> "set_mode", mode |-> MODE_BUTTON]>>
      [] key = "2" -> <<[type |-> "sys", action |-> "set_mode", mode |-> MODE_JOYSTICK]>>
      [] key = "x" -> <<[type |-> "sys", action |-> "e_stop"]>>
      [] key = "up" -> <<[type |-> "cmd", action |-> "inc_speed"]>>
      [] key = "down" -> <<[type |-> "cmd", action |-> "dec_speed"]>>
      [] key = "left" -> <<[type |-> "cmd", action |-> "steer_left"]>>
      [] key = "right" -> <<[type |-> "cmd", action |-> "steer_right"]>>
      [] key = "space" -> <<[type |-> "cmd", action |-> "stop"]>>
      [] key = "s" -> <<[type |-> "cmd", action |-> "stop"]>>
      [] OTHER -> <<>>

-----------------------------------------------------------------------------
(* control/mixer.py, drivers/servo.py, drivers/motor_driver.py               *)

\* Mutant of mix_skid: the sums are returned without normalisation.
mix_skid_unscaled(throttle, turn) ==
    [l |-> throttle + turn, r |-> throttle - turn, m |-> UNIT]

\* Mutant of mix_skid: the scale is max(|l|, |r|) without the floor of 1.0
\* (a zero scale is replaced by 1.0 to keep the division defined).
mix_skid_no_floor(throttle, turn) ==
    LET l == throttle + turn
        r == throttle - turn
        m == Max2(Abs(l), Abs(r))
    IN  [l |-> l, r |-> r, m |-> IF m = 0 THEN UNIT ELSE m]

\* mix_skid returns (l / m, r / m); the pair is kept exact as numerators l, r
\* over the common denominator m.
mix_skid(throttle, turn) ==
    LET l == throttle + turn
        r == throttle - turn
        m == Max2(UNIT, Max2(Abs(l), Abs(r)))
    IN  [l |-> l, r |-> r, m |-> m]

\* Servo.angle_to_us for an angle given in fixed-point degrees:
\* int(MIN_US + (angle - MIN_DEG) * (MAX_US - MIN_US) / (MAX_DEG - MIN_DEG)).
\* Numerator and denominator of the slope are both divided by 200 (exactly)
\* to keep the products within 32-bit integers.
angle_to_us(angle_deg) ==
    LET angle == Max2(SERVO_MIN_DEG * UNIT, Min2(SERVO_MAX_DEG * UNIT, angle_deg))
        num == (SERVO_MAX_US - SERVO_MIN_US) \div 200
        den == ((SERVO_MAX_DEG - SERVO_MIN_DEG) * UNIT) \div 200
    IN  SERVO_MIN_US + TruncDiv((angle - SERVO_MIN_DEG * UNIT) * num, den)

\* Mutant of to_byte: the value is passed on without the & 0xFF mask.
to_byte_unmasked(val) == val

to_byte(val) == val % 256

\* MotorDriver.write_lr: the 4-byte payload, channels RL, RR, FL, FR
\* (MOTOR_MAP) with the MOTOR_SIGN corrections.
write_lr_payload(left_spd, right_spd) ==
    LET cl == Max2(-MAX_MOTOR_SPEED, Min2(MAX_MOTOR_SPEED, left_spd))
        cr == Max2(-MAX_MOTOR_SPEED, Min2(MAX_MOTOR_SPEED, right_spd))
    IN  <<to_byte(-cl), to_byte(cr), to_byte(cl), to_byte(-cr)>>

\* MotorDriver.stop
stop_payload == <<0, 0, 0, 0>>

-----------------------------------------------------------------------------
(* app_rpi.py: RpiRobotApp                                                   *)

\* The fields handle_event reads and writes, as one record.
AppState ==
    [speed |-> speed, steer |-> steer, rx |-> rx, mode |-> mode,
     running |-> running, input_source |-> input_source,
     e_stopped |-> e_stopped]

set_mode_event(st, new_mode) ==
    IF st.mode = new_mode THEN st
    ELSE [st EXCEPT !.mode = new_mode,
                    !.input_source =
                        IF new_mode = MODE_BUTTON THEN "keyboard"
                        ELSE IF new_mode = MODE_JOYSTICK THEN "joystick"
                        ELSE "none"]

cmd_event(st, action) ==
    CASE action = "inc_speed" -> [st EXCEPT !.speed = Min2(UNIT, st.speed + SPEED_STEP)]
      [] action = "dec_speed" -> [st EXCEPT !.speed = Max2(-UNIT, st.speed - SPEED_STEP)]
      [] action = "steer_left" -> [st EXCEPT !.steer = -UNIT]
      [] action = "steer_right" -> [st EXCEPT !.steer = UNIT]
      [] action = "stop" -> [st EXCEPT !.speed = 0, !.steer = 0]
      [] OTHER -> st

\* Mutant of axis_event: the axes are taken over without the sign change.
axis_event_unnegated(st, e) ==
    IF st.mode = MODE_JOYSTICK
    THEN [st EXCEPT !.speed = e.y, !.steer = e.x, !.rx = e.rx]
    ELSE st

\* EVENT_AXIS: speed = -y, steer = -x, rx = rx, in JOYSTICK mode only
axis_event(st, e) ==
    IF st.mode = MODE_JOYSTICK
    THEN [st EXCEPT !.speed = -e.y, !.steer = -e.x, !.rx = e.rx]
    ELSE st

\* Mutant of e_stop_event: the e-stop only zeroes the intent and leaves the
\* loop running.
e_stop_event_soft(st) == [st EXCEPT !.speed = 0, !.steer = 0, !.e_stopped = TRUE]

\* action == ACTION_E_STOP: self.running = False
e_stop_event(st) == [st EXCEPT !.running = FALSE, !.e_stopped = TRUE]

handle_event(st, e) ==
    IF e.type = "sys" THEN
        IF e.action = "e_stop" THEN e_stop_event(st)
        ELSE IF e.action = "set_mode" THEN set_mode_event(st, e.mode)
        ELSE st
    ELSE IF e.type = "cmd" THEN cmd_event(st, e.action)
    ELSE IF e.type = "axis" THEN axis_event(st, e)
    ELSE st

\* for e in self.input_source.poll(): self.handle_event(e)
RECURSIVE handle_all(_, _)
handle_all(st, events) ==
    IF events = <<>> THEN st
    ELSE handle_all(handle_event(st, Head(events)), Tail(events))

\* A schema-conforming set_mode event naming the mode constants.py defines
\* but handle_event does not support.  Neither shipped source emits it; it
\* is admitted as a poll result so that the unsupported-mode branch of
\* handle_event is exercised.
UnsupportedModeEvents ==
    <<[type |-> "sys", action |-> "set_mode", mode |-> MODE_SENSOR]>>

InitApp ==
    /\ speed = 0 /\ steer = 0 /\ rx = 0
    /\ mode = MODE_JOYSTICK
    /\ running = FALSE
    /\ hw_ok \in BOOLEAN
    /\ joy_connected \in BOOLEAN
    /\ input_source = IF joy_connected THEN "joystick" ELSE "keyboard"
    /\ axis_states = [n \in AxisNames |-> 0]
    /\ since_send = PERIOD_MS
    \* servo.neutral() on success; cleanup() releases the servo on failure
    /\ servo_pw = IF hw_ok THEN angle_to_us(90 * UNIT) ELSE 0
    /\ motor_payload = <<>>
    /\ last_op = IF hw_ok THEN "write_angle" ELSE "release"
    /\ e_stopped = FALSE
    /\ pc = "start"
    /\ tick_axis = <<>> /\ tick_servo = 0 /\ gap = -1
    /\ bus_warned = FALSE

\* loop_hw entry: refuses to run without hardware
LoopHwRefused ==
    /\ pc = "start" /\ ~hw_ok
    /\ pc' = "done"
    /\ last_op' = "none"
    /\ UNCHANGED <<speed, steer, rx, mode, running, hw_ok, input_source,
                   joy_connected, axis_states, since_send, servo_pw,
                   motor_payload, e_stopped>>
    /\ UNCHANGED <<tick_axis, tick_servo, gap>>
    /\ UNCHANGED bus_warned
    /\ UNCHANGED appOthers

\* loop_hw entry: running = True, last_send = 0.0
LoopHwStart ==
    /\ pc = "start" /\ hw_ok
    /\ running' = TRUE
    /\ since_send' = PERIOD_MS
    /\ pc' = "while"
    /\ last_op' = "none"
    /\ UNCHANGED <<speed, steer, rx, mode, hw_ok, input_source, joy_connected,
                   axis_states, servo_pw, motor_payload, e_stopped>>
    /\ UNCHANGED <<tick_axis, tick_servo, gap>>
    /\ UNCHANGED bus_warned
    /\ UNCHANGED appOthers

\* while self.running: and the BUTTON-mode steer reset
WhileTest ==
    /\ pc = "while"
    /\ IF running
       THEN /\ steer' = IF mode = MODE_BUTTON THEN 0 ELSE steer
            /\ pc' = "poll"
       ELSE /\ steer' = steer
            /\ pc' = "finally"
    /\ last_op' = "none"
    /\ UNCHANGED <<speed, rx, mode, running, hw_ok, input_source, joy_connected,
                   axis_states, since_send, servo_pw, motor_payload, e_stopped>>
    /\ tick_axis' = <<>> /\ tick_servo' = 0
    /\ UNCHANGED gap
    /\ UNCHANGED bus_warned
    /\ UNCHANGED appOthers

ApplyEvents(events) ==
    LET st == handle_all(AppState, events)
    IN  /\ speed' = st.speed /\ steer' = st.steer /\ rx' = st.rx
        /\ mode' = st.mode /\ running' = st.running
        /\ input_source' = st.input_source
        /\ e_stopped' = st.e_stopped
        /\ tick_axis' = SelectSeq(events, LAMBDA e : e.type = "axis")

\* if self.input_source: for e in self.input_source.poll(): handle_event(e)
PollKeyboard ==
    /\ pc = "poll" /\ input_source = "keyboard"
    /\ \E key \in Keys : ApplyEvents(KeyboardPoll(key))
    /\ pc' = "servo"
    /\ last_op' = "none"
    /\ UNCHANGED <<hw_ok, joy_connected, axis_states, since_send, servo_pw,
                   motor_payload>>
    /\ UNCHANGED <<tick_servo, gap>>
    /\ UNCHANGED bus_warned
    /\ UNCHANGED appOthers

PollJoystick ==
    /\ pc = "poll" /\ input_source = "joystick"
    /\ \E rd \in JsReads :
          LET res == JoystickPoll(joy_connected, axis_states, rd)
          IN  /\ axis_states' = res.states
              /\ ApplyEvents(res.events)
    /\ pc' = "servo"
    /\ last_op' = "none"
    /\ UNCHANGED <<hw_ok, joy_connected, since_send, servo_pw, motor_payload>>
    /\ UNCHANGED <<tick_servo, gap>>
    /\ UNCHANGED bus_warned
    /\ UNCHANGED appOthers

PollUnsupportedMode ==
    /\ pc = "poll" /\ input_source # "none"
    /\ ApplyEvents(UnsupportedModeEvents)
    /\ pc' = "servo"
    /\ last_op' = "none"
    /\ UNCHANGED <<hw_ok, joy_connected, axis_states, since_send, servo_pw,
                   motor_payload>>
    /\ UNCHANGED <<tick_servo, gap>>
    /\ UNCHANGED bus_warned
    /\ UNCHANGED appOthers

\* The axis event of the end-to-end scenario, {x: -0.5, y: 0.8, rx: 0.0},
\* delivered by the joystick source's poll.
SampleAxisEvents ==
    <<[type |-> "axis", x |-> -5 * SPEED_STEP, y |-> 8 * SPEED_STEP, rx |-> 0]>>

PollSampleAxis ==
    /\ pc = "poll" /\ input_source = "joystick" /\ joy_connected
    /\ ApplyEvents(SampleAxisEvents)
    /\ pc' = "servo"
    /\ last_op' = "none"
    /\ UNCHANGED <<hw_ok, joy_connected, axis_states, since_send, servo_pw,
                   motor_payload>>
    /\ UNCHANGED <<tick_servo, gap>>
    /\ UNCHANGED bus_warned
    /\ UNCHANGED appOthers

PollNoSource ==
    /\ pc = "poll" /\ input_source = "none"
    /\ pc' = "servo"
    /\ last_op' = "none"
    /\ UNCHANGED <<speed, steer, rx, mode, running, hw_ok, input_source,
                   joy_connected, axis_states, since_send, servo_pw,
                   motor_payload, e_stopped>>
    /\ UNCHANGED <<tick_axis, tick_servo, gap>>
    /\ UNCHANGED bus_warned
    /\ UNCHANGED appOthers

\* Mutant of ServoWrite: the servo is written only in the ticks in which the
\* motor send is due.
ServoWrite_throttled ==
    /\ pc = "servo"
    /\ IF since_send >= PERIOD_MS
       THEN /\ servo_pw' = angle_to_us(90 * UNIT + rx * 80)
            /\ tick_servo' = tick_servo + 1
            /\ last_op' = "write_angle"
       ELSE /\ UNCHANGED <<servo_pw, tick_servo>>
            /\ last_op' = "none"
    /\ pc' = "motor"
    /\ UNCHANGED <<speed, steer, rx, mode, running, hw_ok, input_source,
                   joy_connected, axis_states, since_send, motor_payload,
                   e_stopped>>
    /\ UNCHANGED <<tick_axis, gap>>
    /\ UNCHANGED bus_warned
    /\ UNCHANGED appOthers

\* servo_deg = 90.0 + self.rx * 80.0; self.servo.write_angle(servo_deg)
ServoWrite ==
    /\ pc = "servo"
    /\ servo_pw' = angle_to_us(90 * UNIT + rx * 80)
    /\ last_op' = "write_angle"
    /\ pc' = "motor"
    /\ UNCHANGED <<speed, steer, rx, mode, running, hw_ok, input_source,
                   joy_connected, axis_states, since_send, motor_payload,
                   e_stopped>>
    /\ tick_servo' = tick_servo + 1
    /\ UNCHANGED <<tick_axis, gap>>
    /\ UNCHANGED bus_warned
    /\ UNCHANGED appOthers

\* the payload loop_hw sends for the current speed and steer
DrivePayload(spd, str) ==
    LET lr == mix_skid(spd, str)
        l_i == TruncDiv(lr.l * MAX_MOTOR_SPEED, lr.m)
        r_i == TruncDiv(lr.r * MAX_MOTOR_SPEED, lr.m)
    IN  write_lr_payload(l_i, r_i)

\* Mutant of MotorWrite: last_send is not updated after a write.
MotorWrite_no_stamp ==
    /\ pc = "motor"
    /\ IF since_send >= PERIOD_MS
       THEN /\ motor_payload' = DrivePayload(speed, steer)
            /\ gap' = 0
            /\ last_op' = "write_lr"
       ELSE /\ UNCHANGED <<motor_payload, gap>>
            /\ last_op' = "none"
    /\ bus_warned' = FALSE
    /\ pc' = "sleep"
    /\ UNCHANGED <<speed, steer, rx, mode, running, hw_ok, input_source,
                   joy_connected, axis_states, servo_pw, e_stopped,
                   since_send>>
    /\ UNCHANGED <<tick_axis, tick_servo>>
    /\ UNCHANGED appOthers

\* Mutant of MotorWriteFails: write_lr lets the OSError through, which takes
\* loop_hw to its finally block before last_send is updated.
MotorWriteFails_raising ==
    /\ pc = "motor"
    /\ since_send >= PERIOD_MS
    /\ bus_warned' = FALSE
    /\ gap' = 0
    /\ last_op' = "write_lr"
    /\ pc' = "finally"
    /\ UNCHANGED <<speed, steer, rx, mode, running, hw_ok, input_source,
                   joy_connected, axis_states, servo_pw, e_stopped,
                   motor_payload, since_send>>
    /\ UNCHANGED <<tick_axis, tick_servo>>
    /\ UNCHANGED appOthers

\* if now - last_send >= period: ... write_lr ...; last_send = now, with a
\* bus write that succeeds
MotorWrite ==
    /\ pc = "motor"
    /\ IF since_send >= PERIOD_MS
       THEN /\ motor_payload' = DrivePayload(speed, steer)
            /\ since_send' = 0
            /\ gap' = 0
            /\ last_op' = "write_lr"
       ELSE /\ UNCHANGED <<motor_payload, since_send, gap>>
            /\ last_op' = "none"
    /\ bus_warned' = FALSE
    /\ pc' = "sleep"
    /\ UNCHANGED <<speed, steer, rx, mode, running, hw_ok, input_source,
                   joy_connected, axis_states, servo_pw, e_stopped>>
    /\ UNCHANGED <<tick_axis, tick_servo>>
    /\ UNCHANGED appOthers

\* The same step when write_i2c_block_data raises OSError inside write_lr:
\* the except clause prints the warning, write_lr returns, nothing has
\* reached the bus, and loop_hw goes on to last_send = now.
MotorWriteFails ==
    /\ pc = "motor"
    /\ since_send >= PERIOD_MS
    /\ bus_warned' = TRUE
    /\ since_send' = 0
    /\ gap' = 0
    /\ last_op' = "write_lr"
    /\ pc' = "sleep"
    /\ UNCHANGED <<speed, steer, rx, mode, running, hw_ok, input_source,
                   joy_connected, axis_states, servo_pw, e_stopped,
                   motor_payload>>
    /\ UNCHANGED <<tick_axis, tick_servo>>
    /\ UNCHANGED appOthers

\* Wall-clock time one iteration may take: at least the sleep(0.01).
TickDurations == {SLEEP_MS, SLEEP_MS + 5, PERIOD_MS}

\* print(...); time.sleep(0.01)
Sleep ==
    /\ pc = "sleep"
    /\ \E d \in TickDurations :
          /\ since_send' = Min2(PERIOD_MS, since_send + d)
          /\ gap' = IF gap < 0 THEN gap ELSE Min2(2 * PERIOD_MS, gap + d)
    /\ pc' = "while"
    /\ last_op' = "none"
    /\ UNCHANGED <<speed, steer, rx, mode, running, hw_ok, input_source,
                   joy_connected, axis_states, servo_pw, motor_payload,
                   e_stopped>>
    /\ UNCHANGED <<tick_axis, tick_servo>>
    /\ bus_warned' = FALSE
    /\ UNCHANGED appOthers

\* except KeyboardInterrupt: Ctrl+C anywhere inside the try block
Interrupt ==
    /\ pc \in {"while", "poll", "servo", "motor", "sleep"}
    /\ pc' = "finally"
    /\ last_op' = "none"
    /\ UNCHANGED <<speed, steer, rx, mode, running, hw_ok, input_source,
                   joy_connected, axis_states, since_send, servo_pw,
                   motor_payload, e_stopped>>
    /\ UNCHANGED <<tick_axis, tick_servo, gap>>
    /\ UNCHANGED bus_warned
    /\ UNCHANGED appOthers

\* Mutant of Cleanup: the servo is released but the motors are not stopped.
Cleanup_no_motor_stop ==
    /\ pc = "finally"
    /\ servo_pw' = 0
    /\ last_op' = "cleanup"
    /\ pc' = "done"
    /\ UNCHANGED <<speed, steer, rx, mode, running, hw_ok, input_source,
                   joy_connected, axis_states, since_send, motor_payload,
                   e_stopped>>
    /\ UNCHANGED <<tick_axis, tick_servo, gap>>
    /\ UNCHANGED bus_warned
    /\ UNCHANGED appOthers

\* finally: self.cleanup(): motor.stop(), servo.cleanup() (release)
Cleanup ==
    /\ pc = "finally"
    /\ motor_payload' = stop_payload
    /\ servo_pw' = 0
    /\ last_op' = "cleanup"
    /\ pc' = "done"
    /\ UNCHANGED <<speed, steer, rx, mode, running, hw_ok, input_source,
                   joy_connected, axis_states, since_send, e_stopped>>
    /\ UNCHANGED <<tick_axis, tick_servo, gap>>
    /\ UNCHANGED bus_warned
    /\ UNCHANGED appOthers

AppIdle ==
    /\ speed = 0 /\ steer = 0 /\ rx = 0 /\ mode = MODE_JOYSTICK
    /\ running = FALSE /\ hw_ok = TRUE /\ joy_connected = FALSE
    /\ input_source = "keyboard"
    /\ axis_states = [n \in AxisNames |-> 0]
    /\ since_send = PERIOD_MS
    /\ servo_pw = angle_to_us(90 * UNIT)
    /\ motor_payload = <<>>
    /\ last_op = "write_angle"
    /\ e_stopped = FALSE
    /\ pc = "start"
    /\ tick_axis = <<>> /\ tick_servo = 0 /\ gap = -1
    /\ bus_warned = FALSE

NextApp ==
    \/ LoopHwRefused \/ LoopHwStart \/ WhileTest
    \/ PollKeyboard \/ PollJoystick \/ PollUnsupportedMode \/ PollSampleAxis
    \/ PollNoSource
    \/ ServoWrite \/ MotorWrite \/ Sleep \/ Interrupt \/ Cleanup

-----------------------------------------------------------------------------
(* v3/control/logic_controller.py: LogicController                           *)

\* _safety_check calls _get_frontal_obstacle_distance(angle_range=30,
\* max_dist_m=0.8); max_dist_mm = max_dist_m * 1000
ANGLE_RANGE == 30
MAX_DIST_MM == 800

\* Bound: the longest range scan of the model.
MaxScanLen == 2

\* Scan points of the model, <<angleDeg, distanceMm>>: a near return at, just
\* inside and just outside both edges of the frontal cone, and dead-ahead
\* returns at distance 0 (no return), just inside, at and beyond the max
\* range.
ScanPoints ==
    {<<0, 500>>, <<30, 500>>, <<31, 500>>, <<329, 500>>, <<330, 500>>,
     <<359, 500>>, <<0, 0>>, <<0, 799>>, <<0, 800>>, <<0, 1500>>}
Scans == UNION {[1..n -> ScanPoints] : n \in 0..MaxScanLen}

\* manual throttle and steering values, in tenths
Throttles == {-5, 0, 5}
Steerings == {-3, 4}
LcModes == {"MANUAL", "AUTO"}

\* the test of lines 132-134 on one scan point
IsFrontalObstacle(angle, dist_mm, angle_range, max_dist_mm) ==
    /\ (0 <= angle /\ angle <= angle_range)
         \/ (360 - angle_range <= angle /\ angle < 360)
    /\ 0 < dist_mm /\ dist_mm < max_dist_mm

\* float('inf'), the initial min_dist: larger than every distance
INF_MM == 999999

\* the for loop of _get_frontal_obstacle_distance over the rest of the scan;
\* acc holds min_dist and found
RECURSIVE frontal_scan(_, _, _, _)
frontal_scan(scan, acc, angle_range, max_dist_mm) ==
    IF scan = <<>> THEN acc
    ELSE LET angle == Head(scan)[1]
             dist_mm == Head(scan)[2]
             hit == /\ IsFrontalObstacle(angle, dist_mm, angle_range, max_dist_mm)
                    /\ dist_mm < acc.min_dist
         IN  frontal_scan(Tail(scan),
                          IF hit THEN [min_dist |-> dist_mm, found |-> TRUE]
                                 ELSE acc,
                          angle_range, max_dist_mm)

\* _get_frontal_obstacle_distance: found = FALSE stands for None, otherwise
\* min_dist is the nearest frontal obstacle (kept in mm)
get_frontal_obstacle_distance(scan, angle_range, max_dist_mm) ==
    IF scan = <<>> THEN [min_dist |-> INF_MM, found |-> FALSE]
    ELSE frontal_scan(scan, [min_dist |-> INF_MM, found |-> FALSE],
                      angle_range, max_dist_mm)

\* _safety_check: (is_safe, throttle, steering)
safety_check(scan, throttle, steering) ==
    LET obstacle_distance ==
            get_frontal_obstacle_distance(scan, ANGLE_RANGE, MAX_DIST_MM)
    IN  IF obstacle_distance.found /\ throttle > 0
        THEN <<FALSE, 0, steering>>
        ELSE <<TRUE, 0, 0>>

\* _run_autonomy_logic
run_autonomy_logic == <<0, 0>>

InitLogic ==
    /\ lc_mode = "MANUAL"
    /\ manual_throttle = 0
    /\ manual_steering = 0
    /\ lidar_data \in Scans
    /\ act_throttle = "none"
    /\ act_steering = "none"
    /\ lc_is_safe = "none"
    /\ lc_fresh = FALSE

LogicIdle ==
    /\ lc_mode = "MANUAL" /\ manual_throttle = 0 /\ manual_steering = 0
    /\ lidar_data = <<>>
    /\ act_throttle = "none" /\ act_steering = "none"
    /\ lc_is_safe = "none" /\ lc_fresh = FALSE

update_manual_input ==
    /\ \E t \in Throttles, s \in Steerings :
          /\ manual_throttle' = t
          /\ manual_steering' = s
    /\ lc_fresh' = FALSE
    /\ UNCHANGED <<lc_mode, lidar_data, act_throttle, act_steering, lc_is_safe>>
    /\ UNCHANGED lcOthers

\* update_sensor_data; only the range scan is read by the controller.  The
\* new scan is empty or a single point here; longer scans are initial ones.
update_sensor_data ==
    /\ \E scan \in {sc \in Scans : Len(sc) <= 1} : lidar_data' = scan
    /\ lc_fresh' = FALSE
    /\ UNCHANGED <<lc_mode, manual_throttle, manual_steering, act_throttle,
                   act_steering, lc_is_safe>>
    /\ UNCHANGED lcOthers

set_mode ==
    /\ \E new_mode \in LcModes \cup {"SPORT"} :
          lc_mode' = IF new_mode \in {"MANUAL", "AUTO"} THEN new_mode
                     ELSE lc_mode
    /\ lc_fresh' = FALSE
    /\ UNCHANGED <<manual_throttle, manual_steering, lidar_data, act_throttle,
                   act_steering, lc_is_safe>>
    /\ UNCHANGED lcOthers

\* Mutant of execute_step: the mode logic runs first and the safety verdict
\* replaces its result in MANUAL mode only.
execute_step_mode_first ==
    LET verdict == safety_check(lidar_data, manual_throttle, manual_steering)
        final == IF lc_mode = "MANUAL"
                 THEN IF ~verdict[1] THEN <<verdict[2], verdict[3]>>
                      ELSE <<manual_throttle, manual_steering>>
                 ELSE IF lc_mode = "AUTO" THEN run_autonomy_logic
                 ELSE <<0, 0>>
    IN  /\ lc_is_safe' = verdict[1]
        /\ act_throttle' = final[1]
        /\ act_steering' = final[2]
        /\ lc_fresh' = TRUE
        /\ UNCHANGED <<lc_mode, manual_throttle, manual_steering, lidar_data>>
        /\ UNCHANGED lcOthers

execute_step ==
    LET verdict == safety_check(lidar_data, manual_throttle, manual_steering)
        final == IF ~verdict[1] THEN <<verdict[2], verdict[3]>>
                 ELSE IF lc_mode = "MANUAL"
                      THEN <<manual_throttle, manual_steering>>
                 ELSE IF lc_mode = "AUTO" THEN run_autonomy_logic
                 ELSE <<0, 0>>
    IN  /\ lc_is_safe' = verdict[1]
        /\ act_throttle' = final[1]
        /\ act_steering' = final[2]
        /\ lc_fresh' = TRUE
        /\ UNCHANGED <<lc_mode, manual_throttle, manual_steering, lidar_data>>
        /\ UNCHANGED lcOthers

NextLogic ==
    \/ update_manual_input \/ update_sensor_data \/ set_mode \/ execute_step

-----------------------------------------------------------------------------
(* v2/input/gps_imu_sensor.py (ImuSensor), v2/input/gps_sensor.py            *)
(* (GpsSensor), input/lidar_sensor.py (GpsImuSensor): the latest-value       *)
(* caches, their producer threads and the consumer's get_data                *)

\* Bound: updates each producer stores in one behaviour.
MaxUpdates == 2

\* Mutant of wrap180: the result is taken in (-180, 180].
wrap180_upper(x) == 180 - ((180 - x) % 360)

\* (x + 180) % 360 - 180
wrap180(x) == ((x + 180) % 360) - 180

\* raw / 32768.0 * 180.0; the raw angles of the model are multiples of 8192,
\* for which the quotient is a whole number of degrees
angle_deg(raw) == (raw * 180) \div 32768

\* 0x53 angle notifications of the model: signed 16-bit roll, pitch, yaw.
\* valid is the outcome of the length, header and checksum tests.
ImuNotifications ==
    {[valid |-> TRUE, roll_raw |-> 8192, pitch_raw |-> -8192, yaw_raw |-> 16384],
     [valid |-> TRUE, roll_raw |-> -16384, pitch_raw |-> 0, yaw_raw |-> -32768],
     [valid |-> FALSE, roll_raw |-> 0, pitch_raw |-> 0, yaw_raw |-> 0]}

ImuInitial == [timestamp |-> 0, yaw |-> 0, pitch |-> 0, roll |-> 0]

\* NAV-PVT messages of the model
NavPvts ==
    {[fixType |-> 3, numSV |-> 12, lat |-> 37, lon |-> 127, hMSL |-> 52000,
      gSpeed |-> 2500, headMot |-> 90, pDOP |-> 1],
     [fixType |-> 2, numSV |-> 5, lat |-> 38, lon |-> 128, hMSL |-> 48000,
      gSpeed |-> 5000, headMot |-> 180, pDOP |-> 3]}

GpsInitial ==
    [timestamp |-> 0, fix_type |-> 0, num_satellites |-> 0, lat_deg |-> 0,
     lon_deg |-> 0, altitude_msl_m |-> 0, ground_speed_kmh |-> 0,
     heading_deg |-> 0, pDOP |-> 99]

\* the record _process_nav_pvt builds (hMSL / 1000.0, gSpeed * 0.0036)
nav_pvt_record(data, now) ==
    [timestamp |-> now, fix_type |-> data.fixType,
     num_satellites |-> data.numSV, lat_deg |-> data.lat,
     lon_deg |-> data.lon, altitude_msl_m |-> data.hMSL \div 1000,
     ground_speed_kmh |-> (data.gSpeed * 36) \div 10000,
     heading_deg |-> data.headMot, pDOP |-> data.pDOP]

\* decoded 0x61 samples reaching GpsImuSensor._parse_witmotion_data (degrees)
WitSamples == {[roll |-> 45, pitch |-> -45, yaw |-> 90],
               [roll |-> -90, pitch |-> 0, yaw |-> -180]}

WitInitial ==
    [timestamp |-> 0, roll |-> 0, pitch |-> 0, yaw |-> 0, latitude |-> 0]

InitCache ==
    /\ imu_lock = "free" /\ imu_latest = ImuInitial
    /\ raw_yaw = 0 /\ yaw_offset = 0
    /\ imu_pc = "idle" /\ imu_pending = ImuInitial /\ imu_count = 0
    /\ gps_lock = "free" /\ gps_latest = GpsInitial
    /\ gps_pc = "idle" /\ gps_pending = GpsInitial /\ gps_count = 0
    /\ wit_latest = WitInitial /\ wit_count = 0
    /\ rd_pc = "idle" /\ snap = [kind |-> "none", data |-> ImuInitial]
    /\ cache_hist = [imu |-> {ImuInitial}, gps |-> {GpsInitial},
                     wit |-> {WitInitial}]

CacheIdle == InitCache

\* ImuSensor._notification_handler up to `now = time.time()`: a packet that
\* fails the length, header or checksum test is dropped
ImuNotify ==
    /\ imu_pc = "idle" /\ imu_count < MaxUpdates
    /\ \E data \in ImuNotifications :
          IF data.valid
          THEN /\ imu_pending' = [timestamp |-> imu_count + 1,
                                  yaw |-> angle_deg(data.yaw_raw),
                                  pitch |-> angle_deg(data.pitch_raw),
                                  roll |-> angle_deg(data.roll_raw)]
               /\ imu_pc' = "acquire"
          ELSE UNCHANGED <<imu_pending, imu_pc>>
    /\ UNCHANGED <<imu_lock, imu_latest, raw_yaw, yaw_offset, imu_count,
                   gps_lock, gps_latest, gps_pc, gps_pending, gps_count,
                   wit_latest, wit_count, rd_pc, snap, cache_hist>>
    /\ UNCHANGED cacheOthers

\* with self.data_lock: (entry)
ImuAcquire ==
    /\ imu_pc = "acquire" /\ imu_lock = "free"
    /\ imu_lock' = "imu"
    /\ imu_pc' = "store"
    /\ UNCHANGED <<imu_latest, raw_yaw, yaw_offset, imu_pending, imu_count,
                   gps_lock, gps_latest, gps_pc, gps_pending, gps_count,
                   wit_latest, wit_count, rd_pc, snap, cache_hist>>
    /\ UNCHANGED cacheOthers

\* Mutant of imu_new_record: the stored record keeps the old timestamp (the
\* fields are written in place and the timestamp is forgotten).
imu_new_record_partial(old, pending, offset) ==
    [old EXCEPT !.yaw = wrap180(pending.yaw + offset),
                !.pitch = pending.pitch,
                !.roll = pending.roll]

\* the dict that replaces self.latest_data (lines 113-121)
imu_new_record(old, pending, offset) ==
    [timestamp |-> pending.timestamp,
     yaw |-> wrap180(pending.yaw + offset),
     pitch |-> pending.pitch,
     roll |-> pending.roll]

\* the body of the with block and its exit: raw_yaw, corrected_yaw,
\* latest_data = {...}; the lock is released
ImuStore ==
    /\ imu_pc = "store" /\ imu_lock = "imu"
    /\ raw_yaw' = imu_pending.yaw
    /\ imu_latest' = imu_new_record(imu_latest, imu_pending, yaw_offset)
    /\ cache_hist' = [cache_hist EXCEPT
                        !.imu = @ \cup {[timestamp |-> imu_pending.timestamp,
                                         yaw |-> wrap180(imu_pending.yaw + yaw_offset),
                                         pitch |-> imu_pending.pitch,
                                         roll |-> imu_pending.roll]}]
    /\ imu_count' = imu_count + 1
    /\ imu_lock' = "free"
    /\ imu_pc' = "idle"
    /\ UNCHANGED <<yaw_offset, imu_pending, gps_lock, gps_latest, gps_pc,
                   gps_pending, gps_count, wit_latest, wit_count, rd_pc, snap>>
    /\ UNCHANGED cacheOthers

\* GpsSensor._process_nav_pvt up to the with statement
GpsMessage ==
    /\ gps_pc = "idle" /\ gps_count < MaxUpdates
    /\ \E data \in NavPvts :
          gps_pending' = nav_pvt_record(data, gps_count + 1)
    /\ gps_pc' = "acquire"
    /\ UNCHANGED <<imu_lock, imu_latest, raw_yaw, yaw_offset, imu_pc,
                   imu_pending, imu_count, gps_lock, gps_latest, gps_count,
                   wit_latest, wit_count, rd_pc, snap, cache_hist>>
    /\ UNCHANGED cacheOthers

GpsAcquire ==
    /\ gps_pc = "acquire" /\ gps_lock = "free"
    /\ gps_lock' = "gps"
    /\ gps_pc' = "store"
    /\ UNCHANGED <<imu_lock, imu_latest, raw_yaw, yaw_offset, imu_pc,
                   imu_pending, imu_count, gps_latest, gps_pending, gps_count,
                   wit_latest, wit_count, rd_pc, snap, cache_hist>>
    /\ UNCHANGED cacheOthers

\* self.latest_data = {...}; the lock is released
GpsStore ==
    /\ gps_pc = "store" /\ gps_lock = "gps"
    /\ gps_latest' = gps_pending
    /\ cache_hist' = [cache_hist EXCEPT !.gps = @ \cup {gps_pending}]
    /\ gps_count' = gps_count + 1
    /\ gps_lock' = "free"
    /\ gps_pc' = "idle"
    /\ UNCHANGED <<imu_lock, imu_latest, raw_yaw, yaw_offset, imu_pc,
                   imu_pending, imu_count, gps_pending, wit_latest, wit_count,
                   rd_pc, snap>>
    /\ UNCHANGED cacheOthers

\* GpsImuSensor._parse_witmotion_data: self.latest_data.update({...}), one
\* dict.update call on the shared dict, which leaves latitude and longitude
WitUpdate ==
    /\ wit_count < MaxUpdates
    /\ \E smp \in WitSamples :
          LET rec == [wit_latest EXCEPT !.timestamp = wit_count + 1,
                                        !.roll = smp.roll,
                                        !.pitch = smp.pitch,
                                        !.yaw = smp.yaw]
          IN  /\ wit_latest' = rec
              /\ cache_hist' = [cache_hist EXCEPT !.wit = @ \cup {rec}]
    /\ wit_count' = wit_count + 1
    /\ UNCHANGED <<imu_lock, imu_latest, raw_yaw, yaw_offset, imu_pc,
                   imu_pending, imu_count, gps_lock, gps_latest, gps_pc,
                   gps_pending, gps_count, rd_pc, snap>>
    /\ UNCHANGED cacheOthers

\* ImuSensor.get_data: with self.data_lock: (entry)
ImuGetAcquire ==
    /\ rd_pc = "idle" /\ imu_lock = "free"
    /\ imu_lock' = "reader"
    /\ rd_pc' = "imu_copy"
    /\ UNCHANGED <<imu_latest, raw_yaw, yaw_offset, imu_pc, imu_pending,
                   imu_count, gps_lock, gps_latest, gps_pc, gps_pending,
                   gps_count, wit_latest, wit_count, snap, cache_hist>>
    /\ UNCHANGED cacheOthers

\* return self.latest_data.copy(); the lock is released
ImuGetCopy ==
    /\ rd_pc = "imu_copy" /\ imu_lock = "reader"
    /\ snap' = [kind |-> "imu", data |-> imu_latest]
    /\ imu_lock' = "free"
    /\ rd_pc' = "idle"
    /\ UNCHANGED <<imu_latest, raw_yaw, yaw_offset, imu_pc, imu_pending,
                   imu_count, gps_lock, gps_latest, gps_pc, gps_pending,
                   gps_count, wit_latest, wit_count, cache_hist>>
    /\ UNCHANGED cacheOthers

\* GpsSensor.get_data
GpsGetAcquire ==
    /\ rd_pc = "idle" /\ gps_lock = "free"
    /\ gps_lock' = "reader"
    /\ rd_pc' = "gps_copy"
    /\ UNCHANGED <<imu_lock, imu_latest, raw_yaw, yaw_offset, imu_pc,
                   imu_pending, imu_count, gps_latest, gps_pc, gps_pending,
                   gps_count, wit_latest, wit_count, snap, cache_hist>>
    /\ UNCHANGED cacheOthers

GpsGetCopy ==
    /\ rd_pc = "gps_copy" /\ gps_lock = "reader"
    /\ snap' = [kind |-> "gps", data |-> gps_latest]
    /\ gps_lock' = "free"
    /\ rd_pc' = "idle"
    /\ UNCHANGED <<imu_lock, imu_latest, raw_yaw, yaw_offset, imu_pc,
                   imu_pending, imu_count, gps_latest, gps_pc, gps_pending,
                   gps_count, wit_latest, wit_count, cache_hist>>
    /\ UNCHANGED cacheOthers

\* GpsImuSensor.get_data: return self.latest_data.copy(), one dict.copy call
WitGet ==
    /\ rd_pc = "idle"
    /\ snap' = [kind |-> "wit", data |-> wit_latest]
    /\ UNCHANGED <<imu_lock, imu_latest, raw_yaw, yaw_offset, imu_pc,
                   imu_pending, imu_count, gps_lock, gps_latest, gps_pc,
                   gps_pending, gps_count, wit_latest, wit_count, rd_pc,
                   cache_hist>>
    /\ UNCHANGED cacheOthers

\* ---- ImuSensor.tare_yaw and align_yaw -----------------------------------

\* true_heading arguments of align_yaw in this model (degrees)
Headings == {90, 180, 270}

CalIdle == cal_op = [op |-> "none", ok |-> FALSE, heading |-> 0]

\* tare_yaw: refused while no notification has been stored, else
\* yaw_offset = -raw_yaw; the whole body runs under data_lock
TareYaw ==
    /\ imu_lock = "free"
    /\ IF imu_latest.timestamp = 0
       THEN /\ cal_op' = [op |-> "tare", ok |-> FALSE, heading |-> 0]
            /\ UNCHANGED yaw_offset
       ELSE /\ yaw_offset' = -raw_yaw
            /\ cal_op' = [op |-> "tare", ok |-> TRUE, heading |-> 0]
    /\ UNCHANGED <<imu_lock, imu_latest, raw_yaw, imu_pc, imu_pending,
                   imu_count, gps_lock, gps_latest, gps_pc, gps_pending,
                   gps_count, wit_latest, wit_count, rd_pc, snap, cache_hist>>
    /\ UNCHANGED calOthers

\* Mutant of AlignYaw: the offset is computed without the timestamp test.
AlignYaw_no_guard ==
    /\ imu_lock = "free"
    /\ \E true_heading \in Headings :
          /\ yaw_offset' = ((true_heading - raw_yaw + 180) % 360) - 180
          /\ cal_op' = [op |-> "align", ok |-> imu_latest.timestamp # 0,
                        heading |-> true_heading]
    /\ UNCHANGED <<imu_lock, imu_latest, raw_yaw, imu_pc, imu_pending,
                   imu_count, gps_lock, gps_latest, gps_pc, gps_pending,
                   gps_count, wit_latest, wit_count, rd_pc, snap, cache_hist>>
    /\ UNCHANGED calOthers

\* align_yaw(true_heading): refused while no notification has been stored,
\* else yaw_offset = (true_heading - raw_yaw + 180) % 360 - 180
AlignYaw ==
    /\ imu_lock = "free"
    /\ \E true_heading \in Headings :
          IF imu_latest.timestamp = 0
          THEN /\ cal_op' = [op |-> "align", ok |-> FALSE,
                             heading |-> true_heading]
               /\ UNCHANGED yaw_offset
          ELSE /\ yaw_offset' = wrap180(true_heading - raw_yaw)
               /\ cal_op' = [op |-> "align", ok |-> TRUE,
                             heading |-> true_heading]
    /\ UNCHANGED <<imu_lock, imu_latest, raw_yaw, imu_pc, imu_pending,
                   imu_count, gps_lock, gps_latest, gps_pc, gps_pending,
                   gps_count, wit_latest, wit_count, rd_pc, snap, cache_hist>>
    /\ UNCHANGED calOthers

\* ImuSensor alone: its notification handler, get_data and the calibration
\* calls
NextYaw ==
    \/ ImuNotify \/ ImuAcquire \/ ImuStore
    \/ ImuGetAcquire \/ ImuGetCopy
    \/ TareYaw \/ AlignYaw

NextCache ==
    \/ ImuNotify \/ ImuAcquire \/ ImuStore
    \/ GpsMessage \/ GpsAcquire \/ GpsStore
    \/ WitUpdate
    \/ ImuGetAcquire \/ ImuGetCopy \/ GpsGetAcquire \/ GpsGetCopy \/ WitGet

-----------------------------------------------------------------------------
(* v3/input/blecn.py (DeviceModel.onDataReceived) and input/lidar_sensor.py  *)
(* (GpsImuSensor._notification_handler): the two decoders of the 22-byte     *)
(* 0x55 0x61 frame                                                           *)

FULL_PACKET_LENGTH == 22
HEADER_BYTE == 85     \* 0x55
TYPE_BYTE == 97       \* 0x61

\* Bound: segments (garbage bytes, frames, a cut frame) one stream is made of.
MaxSegments == 3

\* round(x, 3) of x = num / den thousandths: Python rounds an exactly
\* representable value half to even
round_milli(num, den) ==
    LET q == num \div den
        r == num - q * den
    IN  IF 2 * r < den THEN q
        ELSE IF 2 * r > den THEN q + 1
        ELSE IF q % 2 = 0 THEN q ELSE q + 1

getSignInt16(num) == IF num >= 32768 THEN num - 65536 ELSE num

\* Mutant of word_at: every word is read one word further on, so the last
\* field is read from the two trailing bytes.
word_at_next(Bytes, i) == Bytes[i + 4] * 256 + Bytes[i + 3]

\* the little-endian word at 0-based byte offset i: Bytes[i+1] << 8 | Bytes[i]
word_at(Bytes, i) == Bytes[i + 2] * 256 + Bytes[i + 1]

\* DeviceModel.processData: nine fields in thousandths of g, deg/s and deg
\* (x / 32768 * 16, * 2000, * 180, rounded to three places)
processData(Bytes) ==
    <<round_milli(getSignInt16(word_at(Bytes, 0)) * 125, 256),
      round_milli(getSignInt16(word_at(Bytes, 2)) * 125, 256),
      round_milli(getSignInt16(word_at(Bytes, 4)) * 125, 256),
      round_milli(getSignInt16(word_at(Bytes, 6)) * 15625, 256),
      round_milli(getSignInt16(word_at(Bytes, 8)) * 15625, 256),
      round_milli(getSignInt16(word_at(Bytes, 10)) * 15625, 256),
      round_milli(getSignInt16(word_at(Bytes, 12)) * 5625, 1024),
      round_milli(getSignInt16(word_at(Bytes, 14)) * 5625, 1024),
      round_milli(getSignInt16(word_at(Bytes, 16)) * 5625, 1024)>>

\* Mutant of get_sign_int16: the word is returned unsigned.
get_sign_int16_unsigned(num) == num

get_sign_int16(num) == IF num >= 32768 THEN num - 65536 ELSE num

\* GpsImuSensor._parse_witmotion_data: the values it stores, in the order
\* acc_x, acc_y, acc_z, gyro_x, gyro_y, gyro_z, roll, pitch, yaw
parse_witmotion_data(data_bytes) ==
    <<round_milli(get_sign_int16(word_at(data_bytes, 0)) * 125, 256),
      round_milli(get_sign_int16(word_at(data_bytes, 2)) * 125, 256),
      round_milli(get_sign_int16(word_at(data_bytes, 4)) * 125, 256),
      round_milli(get_sign_int16(word_at(data_bytes, 6)) * 15625, 256),
      round_milli(get_sign_int16(word_at(data_bytes, 8)) * 15625, 256),
      round_milli(get_sign_int16(word_at(data_bytes, 10)) * 15625, 256),
      round_milli(get_sign_int16(word_at(data_bytes, 12)) * 5625, 1024),
      round_milli(get_sign_int16(word_at(data_bytes, 14)) * 5625, 1024),
      round_milli(get_sign_int16(word_at(data_bytes, 16)) * 5625, 1024)>>

\* Mutant of TempBytes_extend: the buffer is replaced by the new data.
TempBytes_replace(buf, data) == data

\* self.TempBytes.extend(data)
TempBytes_extend(buf, data) == buf \o data

\* Mutant of del_bad_type: the 0x55 and the byte after it are both dropped.
del_bad_type_two(buf) == SubSeq(buf, 3, Len(buf))

\* Mutant of del_bad_type: the whole buffer is discarded.
del_bad_type_all(buf) == <<>>

\* del self.TempBytes[0] when TempBytes[1] != 0x61
del_bad_type(buf) == Tail(buf)

\* Mutant of del_packet: only the two header bytes are removed.
del_packet_header_only(buf) == SubSeq(buf, 3, Len(buf))

\* del self.TempBytes[:FULL_PACKET_LENGTH]
del_packet(buf) == SubSeq(buf, FULL_PACKET_LENGTH + 1, Len(buf))

\* the while loop of DeviceModel.onDataReceived
RECURSIVE dm_loop(_, _)
dm_loop(buf, out) ==
    IF buf = <<>> THEN [buf |-> buf, out |-> out]
    ELSE IF buf[1] # HEADER_BYTE THEN dm_loop(Tail(buf), out)
    ELSE IF Len(buf) < 2 THEN [buf |-> buf, out |-> out]
    ELSE IF buf[2] # TYPE_BYTE THEN dm_loop(del_bad_type(buf), out)
    ELSE IF Len(buf) < FULL_PACKET_LENGTH THEN [buf |-> buf, out |-> out]
    ELSE dm_loop(del_packet(buf),
                 Append(out, processData(SubSeq(buf, 3, FULL_PACKET_LENGTH))))

\* one pass through the body of the while loop of onDataReceived: the buffer
\* it leaves, the samples it hands on, and whether the loop is left
dm_iter(buf) ==
    IF buf = <<>> THEN [buf |-> buf, emit |-> <<>>, done |-> TRUE]
    ELSE IF buf[1] # HEADER_BYTE
         THEN [buf |-> Tail(buf), emit |-> <<>>, done |-> FALSE]
    ELSE IF Len(buf) < 2 THEN [buf |-> buf, emit |-> <<>>, done |-> TRUE]
    ELSE IF buf[2] # TYPE_BYTE
         THEN [buf |-> del_bad_type(buf), emit |-> <<>>, done |-> FALSE]
    ELSE IF Len(buf) < FULL_PACKET_LENGTH
         THEN [buf |-> buf, emit |-> <<>>, done |-> TRUE]
    ELSE [buf |-> del_packet(buf),
          emit |-> <<processData(SubSeq(buf, 3, FULL_PACKET_LENGTH))>>,
          done |-> FALSE]

\* one pass through the while loop of GpsImuSensor._notification_handler
wit_iter(buf) ==
    IF Len(buf) < FULL_PACKET_LENGTH
    THEN [buf |-> buf, emit |-> <<>>, done |-> TRUE]
    ELSE IF buf[1] # HEADER_BYTE
         THEN [buf |-> Tail(buf), emit |-> <<>>, done |-> FALSE]
    ELSE IF buf[2] # TYPE_BYTE
         THEN [buf |-> Tail(buf), emit |-> <<>>, done |-> FALSE]
    ELSE [buf |-> SubSeq(buf, FULL_PACKET_LENGTH + 1, Len(buf)),
          emit |-> <<parse_witmotion_data(SubSeq(buf, 3, FULL_PACKET_LENGTH))>>,
          done |-> FALSE]

\* Mutant of wit_loop: the loop runs only while more than 22 bytes are
\* buffered.
RECURSIVE wit_loop_strict(_, _)
wit_loop_strict(buf, out) ==
    IF Len(buf) <= FULL_PACKET_LENGTH THEN [buf |-> buf, out |-> out]
    ELSE IF buf[1] # HEADER_BYTE THEN wit_loop_strict(Tail(buf), out)
    ELSE IF buf[2] # TYPE_BYTE THEN wit_loop_strict(Tail(buf), out)
    ELSE wit_loop_strict(SubSeq(buf, FULL_PACKET_LENGTH + 1, Len(buf)),
                         Append(out, parse_witmotion_data(
                                         SubSeq(buf, 3, FULL_PACKET_LENGTH))))

\* the while loop of GpsImuSensor._notification_handler
RECURSIVE wit_loop(_, _)
wit_loop(buf, out) ==
    IF Len(buf) < FULL_PACKET_LENGTH THEN [buf |-> buf, out |-> out]
    ELSE IF buf[1] # HEADER_BYTE THEN wit_loop(Tail(buf), out)
    ELSE IF buf[2] # TYPE_BYTE THEN wit_loop(Tail(buf), out)
    ELSE wit_loop(SubSeq(buf, FULL_PACKET_LENGTH + 1, Len(buf)),
                  Append(out, parse_witmotion_data(
                                  SubSeq(buf, 3, FULL_PACKET_LENGTH))))

\* Frames of the model.  FrameZero has an all-zero payload; FrameMixed has a
\* payload that begins 0x55 0x61, ends 0x61 0x55 and holds the extreme words.
FrameZero ==
    <<85, 97>> \o [i \in 1..20 |-> 0]

FrameMixed ==
    <<85, 97, 85, 97, 255, 127, 0, 128, 128, 0, 1, 0, 255, 255, 0, 64, 0, 192,
      52, 18, 97, 85>>

\* a frame cut after five bytes
FrameCut == <<85, 97, 85, 0, 7>>

Segments == {<<0>>, <<85>>, <<97>>, FrameZero, FrameMixed, FrameCut}

RECURSIVE Flatten(_)
Flatten(ss) == IF ss = <<>> THEN <<>> ELSE Head(ss) \o Flatten(Tail(ss))

Streams ==
    {Flatten(ss) : ss \in UNION {[1..n -> Segments] : n \in 0..MaxSegments}}

InitDecoder ==
    /\ stream \in Streams
    /\ fed = 0 /\ note = <<>> /\ note_pc = "idle"
    /\ TempBytes = <<>> /\ dm_out = <<>>
    /\ data_buffer = <<>> /\ wit_out = <<>>

DecoderIdle ==
    /\ stream = <<>>
    /\ fed = 0 /\ note = <<>> /\ note_pc = "idle"
    /\ TempBytes = <<>> /\ dm_out = <<>>
    /\ data_buffer = <<>> /\ wit_out = <<>>

\* One frame per behaviour, with either payload of the model and several
\* values of its two trailing (checksum) bytes.
TrailingBytes == {<<0, 0>>, <<255, 255>>, <<52, 18>>, <<97, 85>>}
ChecksumFrames ==
    {SubSeq(f, 1, 20) \o c : f \in {FrameZero, FrameMixed}, c \in TrailingBytes}

InitFrame ==
    /\ stream \in ChecksumFrames
    /\ fed = 0 /\ note = <<>> /\ note_pc = "idle"
    /\ TempBytes = <<>> /\ dm_out = <<>>
    /\ data_buffer = <<>> /\ wit_out = <<>>

\* the BLE stack cuts the next n bytes of the stream into one notification
BleNotify ==
    /\ note_pc = "idle" /\ fed < Len(stream)
    /\ \E n \in 1..(Len(stream) - fed) :
          /\ note' = SubSeq(stream, fed + 1, fed + n)
          /\ fed' = fed + n
    /\ note_pc' = "dm"
    /\ UNCHANGED <<stream, TempBytes, dm_out, data_buffer, wit_out>>
    /\ UNCHANGED decOthers

\* DeviceModel.onDataReceived(sender, data)
onDataReceived ==
    /\ note_pc = "dm"
    /\ LET res == dm_loop(TempBytes_extend(TempBytes, note), dm_out)
       IN  /\ TempBytes' = res.buf
           /\ dm_out' = res.out
    /\ note_pc' = "wit"
    /\ UNCHANGED <<stream, fed, note, data_buffer, wit_out>>
    /\ UNCHANGED decOthers

\* GpsImuSensor._notification_handler(sender, data)
notification_handler ==
    /\ note_pc = "wit"
    /\ LET res == wit_loop(data_buffer \o note, wit_out)
       IN  /\ data_buffer' = res.buf
           /\ wit_out' = res.out
    /\ note_pc' = "idle"
    /\ UNCHANGED <<stream, fed, note, TempBytes, dm_out>>
    /\ UNCHANGED decOthers

NextDecoder == BleNotify \/ onDataReceived \/ notification_handler

-----------------------------------------------------------------------------
(* control/mixer.py called on its own, over a grid of arguments in [-1, 1]   *)

\* Bound: the arguments are the multiples of 1/MixSteps in [-1, 1].
MixSteps == 10

MixInputs == {k * (UNIT \div MixSteps) : k \in -MixSteps..MixSteps}

InitMixer ==
    /\ mx_throttle \in MixInputs
    /\ mx_turn \in MixInputs
    /\ mx_out = [l |-> 0, r |-> 0, m |-> UNIT]
    /\ mx_pc = "call"

MixerIdle ==
    /\ mx_throttle = 0 /\ mx_turn = 0
    /\ mx_out = [l |-> 0, r |-> 0, m |-> UNIT]
    /\ mx_pc = "idle"

\* l, r = mix_skid(throttle, turn)
MixCall ==
    /\ mx_pc = "call"
    /\ mx_out' = mix_skid(mx_throttle, mx_turn)
    /\ mx_pc' = "done"
    /\ UNCHANGED <<mx_throttle, mx_turn>>
    /\ UNCHANGED mixOthers

NextMixer == MixCall

-----------------------------------------------------------------------------
(* v2/input/manual_input.py: norm_axis, apply_deadzone; and one raw axis     *)
(* value taken through the conversions of both input sources                 *)

\* DEADZONE = 0.08 of manual_input.py, in hundredths
MI_DEADZONE_PCT == 8

\* value / 32767.0 (not clamped)
norm_axis(value) == value * 20

\* value if abs(value) > deadzone else 0.0
mi_apply_deadzone(value) ==
    IF Abs(value) * 100 > MI_DEADZONE_PCT * UNIT THEN value ELSE 0

\* Bound: the raw values include 2 * AxisGrid + 1 evenly spaced ones.
AxisGrid == 15

\* Raw values of a js axis event: the ends of the signed 16-bit range, the
\* neighbours of both deadzone thresholds, and an even grid.
AxisRaws ==
    {-32768, -32767, -32766, 32766, 32767, -1, 0, 1}
    \cup {1637, 1638, 1639, 1640, -1637, -1638, -1639, -1640}
    \cup {2620, 2621, 2622, 2623, -2620, -2621, -2622, -2623}
    \cup {k * (32767 \div AxisGrid) : k \in -AxisGrid..AxisGrid}

InitAxis ==
    /\ ax_raw \in AxisRaws
    /\ ax_js = 0 /\ ax_mi = 0
    /\ ax_pc = "call"

AxisIdle ==
    /\ ax_raw = 0 /\ ax_js = 0 /\ ax_mi = 0
    /\ ax_pc = "idle"

\* JoystickInput.poll: norm_axis_value(value), then in the event
\* clamp(apply_deadzone(state, DEADZONE), -1.0, 1.0).
\* ManualInput._poll_joystick: norm_axis(value), then apply_deadzone(state).
AxisConvert ==
    /\ ax_pc = "call"
    /\ ax_js' = clamp(apply_deadzone(norm_axis_value(ax_raw), DEADZONE),
                      -UNIT, UNIT)
    /\ ax_mi' = mi_apply_deadzone(norm_axis(ax_raw))
    /\ ax_pc' = "done"
    /\ UNCHANGED ax_raw
    /\ UNCHANGED axOthers

NextAxis == AxisConvert

-----------------------------------------------------------------------------
(* The worker threads: GpsSensor.run (v2/input/gps_sensor.py),               *)
(* LidarSensor.run (v2/input/lidar_sensor.py), ImuSensor's                   *)
(* _ble_communication_loop (v2/input/gps_imu_sensor.py), ManualInput.run     *)
(* (v2/input/manual_input.py) and DataLogger (v2/logging/data_logger.py).    *)
(* The thread objects share no state, so a behaviour runs one of them.       *)

ThreadKinds == {"gps", "lidar", "imu", "manual", "logger"}

\* Bound: samples a producer stores in one behaviour.
MaxSamples == 3

\* Bound: records the model lets the queue hold (the code sets no limit).
MaxQueued == 4

\* queue.Queue(): maxsize defaults to 0, which Queue takes as "no limit"
QUEUE_MAXSIZE == 0

\* the 'type' of the records passed to log_data
LogRecords == {"imu_data", "control_output"}

\* Queue.put_nowait: Full is raised only if maxsize > 0 and qsize >= maxsize
put_nowait(q, maxsize, item) ==
    IF maxsize > 0 /\ Len(q) >= maxsize
    THEN [queue |-> q, full |-> TRUE]
    ELSE [queue |-> Append(q, item), full |-> FALSE]

InitThreads ==
    /\ th \in ThreadKinds
    /\ th_pc = IF th = "lidar" THEN "connect" ELSE "outer"
    /\ th_running = TRUE
    /\ th_conn = FALSE
    /\ th_cache = 0 /\ th_seq = 0 /\ th_snap = 0
    /\ data_queue = <<>> /\ lg_warned = FALSE
    /\ th_good = 0 /\ th_stop_at = "none"

ThreadsIdle ==
    /\ th = "none" /\ th_pc = "idle"
    /\ th_running = FALSE /\ th_conn = FALSE
    /\ th_cache = 0 /\ th_seq = 0 /\ th_snap = 0
    /\ data_queue = <<>> /\ lg_warned = FALSE
    /\ th_good = 0 /\ th_stop_at = "none"

\* ---- GpsSensor.run ------------------------------------------------------

\* while self.running: (outer loop)
GpsOuterTest ==
    /\ th = "gps" /\ th_pc = "outer"
    /\ th_pc' = IF th_running THEN "connect" ELSE "exit"
    /\ UNCHANGED <<th, th_running, th_conn, th_cache, th_seq, th_snap,
                   data_queue, lg_warned, th_good, th_stop_at>>
    /\ UNCHANGED thOthers

\* serial.Serial(...): opens the port, or raises and falls through finally
GpsConnect ==
    /\ th = "gps" /\ th_pc = "connect"
    /\ \E ok \in BOOLEAN :
          /\ th_conn' = ok
          /\ th_pc' = IF ok THEN "inner" ELSE "backoff_test"
    /\ UNCHANGED <<th, th_running, th_cache, th_seq, th_snap, data_queue,
                   lg_warned, th_good, th_stop_at>>
    /\ UNCHANGED thOthers

\* Mutant of GpsInnerTest: the inner loop is `while True`.
GpsInnerTest_no_flag ==
    /\ th = "gps" /\ th_pc = "inner"
    /\ th_pc' = "read"
    /\ UNCHANGED <<th, th_running, th_conn, th_cache, th_seq, th_snap,
                   data_queue, lg_warned, th_good, th_stop_at>>
    /\ UNCHANGED thOthers

\* while self.running: (inner loop); leaving it runs finally: ser.close()
GpsInnerTest ==
    /\ th = "gps" /\ th_pc = "inner"
    /\ IF th_running
       THEN /\ th_pc' = "read"
            /\ UNCHANGED th_conn
       ELSE /\ th_pc' = "backoff_test"
            /\ th_conn' = FALSE
    /\ UNCHANGED <<th, th_running, th_cache, th_seq, th_snap, data_queue,
                   lg_warned, th_good, th_stop_at>>
    /\ UNCHANGED thOthers

\* ubr.read() and its handlers: NAV-PVT is stored by _process_nav_pvt, any
\* other message and a parse error are skipped, SerialException and any
\* other exception break to finally
GpsRead ==
    /\ th = "gps" /\ th_pc = "read"
    /\ \E outcome \in {"nav_pvt", "other", "parse_error", "serial_error"} :
          CASE outcome = "nav_pvt" ->
                  /\ th_seq < MaxSamples
                  /\ th_cache' = th_seq + 1
                  /\ th_good' = th_seq + 1
                  /\ th_seq' = th_seq + 1
                  /\ th_pc' = "inner"
                  /\ UNCHANGED th_conn
            [] outcome = "serial_error" ->
                  /\ th_conn' = FALSE
                  /\ th_pc' = "backoff_test"
                  /\ UNCHANGED <<th_cache, th_good, th_seq>>
            [] OTHER ->
                  /\ th_pc' = "inner"
                  /\ UNCHANGED <<th_conn, th_cache, th_good, th_seq>>
    /\ UNCHANGED <<th, th_running, th_snap, data_queue, lg_warned,
                   th_stop_at>>
    /\ UNCHANGED thOthers

\* if self.running: (before the backoff)
GpsBackoffTest ==
    /\ th = "gps" /\ th_pc = "backoff_test"
    /\ th_pc' = IF th_running THEN "sleep" ELSE "outer"
    /\ UNCHANGED <<th, th_running, th_conn, th_cache, th_seq, th_snap,
                   data_queue, lg_warned, th_good, th_stop_at>>
    /\ UNCHANGED thOthers

\* time.sleep(5)
GpsSleep ==
    /\ th = "gps" /\ th_pc = "sleep"
    /\ th_pc' = "outer"
    /\ UNCHANGED <<th, th_running, th_conn, th_cache, th_seq, th_snap,
                   data_queue, lg_warned, th_good, th_stop_at>>
    /\ UNCHANGED thOthers

\* ---- LidarSensor.run ----------------------------------------------------

\* self.lidar.connect(...); on an exception the handler empties latest_scan,
\* clears is_connected, and finally ends the thread
LidarConnect ==
    /\ th = "lidar" /\ th_pc = "connect"
    /\ \E ok \in BOOLEAN :
          IF ok
          THEN /\ th_conn' = TRUE /\ th_pc' = "motor"
               /\ UNCHANGED th_cache
          ELSE /\ th_conn' = FALSE /\ th_pc' = "exit"
               /\ th_cache' = 0
    /\ UNCHANGED <<th, th_running, th_seq, th_snap, data_queue, lg_warned,
                   th_good, th_stop_at>>
    /\ UNCHANGED thOthers

\* set_motor_pwm(660); time.sleep(2); start_scan_express(...)
LidarStartScan ==
    /\ th = "lidar" /\ th_pc = "motor"
    /\ \E ok \in BOOLEAN :
          IF ok
          THEN /\ th_pc' = "scan"
               /\ UNCHANGED <<th_conn, th_cache>>
          ELSE /\ th_conn' = FALSE /\ th_pc' = "exit"
               /\ th_cache' = 0
    /\ UNCHANGED <<th, th_running, th_seq, th_snap, data_queue, lg_warned,
                   th_good, th_stop_at>>
    /\ UNCHANGED thOthers

\* for scan_data in scan_generator(): one iteration.  The generator yields a
\* scan (break if not running, else store it) or raises.
LidarScan ==
    /\ th = "lidar" /\ th_pc = "scan"
    /\ \E outcome \in {"scan", "error"} :
          IF outcome = "scan"
          THEN IF ~th_running
               THEN /\ th_pc' = "exit"
                    /\ UNCHANGED <<th_conn, th_cache, th_good, th_seq>>
               ELSE /\ th_seq < MaxSamples
                    /\ th_cache' = th_seq + 1
                    /\ th_good' = th_seq + 1
                    /\ th_seq' = th_seq + 1
                    /\ th_pc' = "scan"
                    /\ UNCHANGED th_conn
          ELSE /\ th_cache' = 0
               /\ th_conn' = FALSE
               /\ th_pc' = "exit"
               /\ UNCHANGED <<th_good, th_seq>>
    /\ UNCHANGED <<th, th_running, th_snap, data_queue, lg_warned,
                   th_stop_at>>
    /\ UNCHANGED thOthers

\* ---- ImuSensor._ble_communication_loop ----------------------------------

\* while self.running:
ImuOuterTest ==
    /\ th = "imu" /\ th_pc = "outer"
    /\ th_pc' = IF th_running THEN "scan" ELSE "exit"
    /\ UNCHANGED <<th, th_running, th_conn, th_cache, th_seq, th_snap,
                   data_queue, lg_warned, th_good, th_stop_at>>
    /\ UNCHANGED thOthers

\* BleakScanner.find_device_by_name(..., timeout=10.0)
ImuScan ==
    /\ th = "imu" /\ th_pc = "scan"
    /\ \E outcome \in {"found", "not_found", "error"} :
          th_pc' = CASE outcome = "found" -> "connect"
                     [] outcome = "not_found" -> "sleep"
                     [] OTHER -> "except"
    /\ UNCHANGED <<th, th_running, th_conn, th_cache, th_seq, th_snap,
                   data_queue, lg_warned, th_good, th_stop_at>>
    /\ UNCHANGED thOthers

\* async with BleakClient(device) as client: if client.is_connected:
\* start_notify(...)
ImuConnect ==
    /\ th = "imu" /\ th_pc = "connect"
    /\ \E outcome \in {"connected", "not_connected", "error"} :
          /\ th_conn' = (outcome = "connected")
          /\ th_pc' = CASE outcome = "connected" -> "wait"
                        [] outcome = "not_connected" -> "outer"
                        [] OTHER -> "except"
    /\ UNCHANGED <<th, th_running, th_cache, th_seq, th_snap, data_queue,
                   lg_warned, th_good, th_stop_at>>
    /\ UNCHANGED thOthers

\* while self.running and client.is_connected: await asyncio.sleep(1.0);
\* the link may drop during the sleep
ImuWait ==
    /\ th = "imu" /\ th_pc = "wait"
    /\ IF th_running /\ th_conn
       THEN /\ \E c \in BOOLEAN : th_conn' = c
            /\ th_pc' = "wait"
       ELSE /\ th_conn' = FALSE
            /\ th_pc' = "outer"
    /\ UNCHANGED <<th, th_running, th_cache, th_seq, th_snap, data_queue,
                   lg_warned, th_good, th_stop_at>>
    /\ UNCHANGED thOthers

\* except Exception: if self.running: (before the backoff)
ImuExcept ==
    /\ th = "imu" /\ th_pc = "except"
    /\ th_conn' = FALSE
    /\ th_pc' = IF th_running THEN "sleep" ELSE "outer"
    /\ UNCHANGED <<th, th_running, th_cache, th_seq, th_snap, data_queue,
                   lg_warned, th_good, th_stop_at>>
    /\ UNCHANGED thOthers

\* await asyncio.sleep(5)
ImuSleep ==
    /\ th = "imu" /\ th_pc = "sleep"
    /\ th_pc' = "outer"
    /\ UNCHANGED <<th, th_running, th_conn, th_cache, th_seq, th_snap,
                   data_queue, lg_warned, th_good, th_stop_at>>
    /\ UNCHANGED thOthers

\* ---- ManualInput.run ----------------------------------------------------

\* while self.running: one poll; after the loop the terminal is restored
ManualLoopTest ==
    /\ th = "manual" /\ th_pc = "outer"
    /\ th_pc' = IF th_running THEN "sleep" ELSE "exit"
    /\ UNCHANGED <<th, th_running, th_conn, th_cache, th_seq, th_snap,
                   data_queue, lg_warned, th_good, th_stop_at>>
    /\ UNCHANGED thOthers

\* time.sleep(0.02)
ManualSleep ==
    /\ th = "manual" /\ th_pc = "sleep"
    /\ th_pc' = "outer"
    /\ UNCHANGED <<th, th_running, th_conn, th_cache, th_seq, th_snap,
                   data_queue, lg_warned, th_good, th_stop_at>>
    /\ UNCHANGED thOthers

\* ---- DataLogger ---------------------------------------------------------

\* while self.running: in run; after the loop self.stop() returns at once
LoggerLoopTest ==
    /\ th = "logger" /\ th_pc = "outer"
    /\ th_pc' = IF th_running THEN "get" ELSE "exit"
    /\ UNCHANGED <<th, th_running, th_conn, th_cache, th_seq, th_snap,
                   data_queue, lg_warned, th_good, th_stop_at>>
    /\ UNCHANGED thOthers

\* data_queue.get(timeout=1.0) and the row written, or queue.Empty
LoggerGet ==
    /\ th = "logger" /\ th_pc = "get"
    /\ data_queue' = IF data_queue = <<>> THEN <<>> ELSE Tail(data_queue)
    /\ th_pc' = "outer"
    /\ UNCHANGED <<th, th_running, th_conn, th_cache, th_seq, th_snap,
                   lg_warned, th_good, th_stop_at>>
    /\ UNCHANGED thOthers

\* DataLogger.log_data, called by any other thread
log_data ==
    /\ th = "logger" /\ Len(data_queue) < MaxQueued
    /\ \E data_dict \in LogRecords :
          IF th_running
          THEN LET res == put_nowait(data_queue, QUEUE_MAXSIZE, data_dict)
               IN  /\ data_queue' = res.queue
                   /\ lg_warned' = (lg_warned \/ res.full)
          ELSE UNCHANGED <<data_queue, lg_warned>>
    /\ UNCHANGED <<th, th_pc, th_running, th_conn, th_cache, th_seq, th_snap,
                   th_good, th_stop_at>>
    /\ UNCHANGED thOthers

\* DataLogger.stop: clears running, writes out what the queue holds and
\* closes the file; a second call returns at once
LoggerStop ==
    /\ th = "logger" /\ th_pc # "exit"
    /\ IF th_running
       THEN /\ th_running' = FALSE
            /\ data_queue' = <<>>
            /\ th_stop_at' = th_pc
       ELSE UNCHANGED <<th_running, data_queue, th_stop_at>>
    /\ UNCHANGED <<th, th_pc, th_conn, th_cache, th_seq, th_snap, lg_warned,
                   th_good>>
    /\ UNCHANGED thOthers

\* ---- the callers of the producers ---------------------------------------

\* stop() of GpsSensor, LidarSensor, ImuSensor and ManualInput
Stop ==
    /\ th \in {"gps", "lidar", "imu", "manual"}
    /\ th_running' = FALSE
    /\ th_stop_at' = IF th_stop_at = "none" THEN th_pc ELSE th_stop_at
    /\ UNCHANGED <<th, th_pc, th_conn, th_cache, th_seq, th_snap, data_queue,
                   lg_warned, th_good>>
    /\ UNCHANGED thOthers

\* get_data of GpsSensor and LidarSensor
GetData ==
    /\ th \in {"gps", "lidar"}
    /\ th_snap' = th_cache
    /\ UNCHANGED <<th, th_pc, th_running, th_conn, th_cache, th_seq,
                   data_queue, lg_warned, th_good, th_stop_at>>
    /\ UNCHANGED thOthers

\* the steps the thread itself takes
ThreadRun ==
    \/ GpsOuterTest \/ GpsConnect \/ GpsInnerTest \/ GpsRead
    \/ GpsBackoffTest \/ GpsSleep
    \/ LidarConnect \/ LidarStartScan \/ LidarScan
    \/ ImuOuterTest \/ ImuScan \/ ImuConnect \/ ImuWait \/ ImuExcept
    \/ ImuSleep
    \/ ManualLoopTest \/ ManualSleep
    \/ LoggerLoopTest \/ LoggerGet

NextThreads == ThreadRun \/ log_data \/ LoggerStop \/ Stop \/ GetData

-----------------------------------------------------------------------------
(* v2/main.py: the control loop and its shutdown; board/actuators.py         *)

\* speed arguments of set_throttle in this model, in tenths (-1.1 .. 1.0)
ThrottleArgs == {-11, -10, -5, 0, 5, 10}

DirectionPins == {"LEFT_IN1", "LEFT_IN2", "RIGHT_IN1", "RIGHT_IN2"}

\* pwm_val = max(0, min(255, int(abs(speed) * 255)))
pwm_val(spd) == Max2(0, Min2(255, (Abs(spd) * 255) \div 10))

\* the four pi.write calls of set_throttle, in program order
throttle_pin_writes(spd) ==
    LET in1 == IF spd > 0 THEN 1 ELSE 0
        in2 == IF spd < 0 THEN 1 ELSE 0
    IN  <<<<"LEFT_IN1", in1>>, <<"LEFT_IN2", in2>>,
          <<"RIGHT_IN1", in1>>, <<"RIGHT_IN2", in2>>>>

\* the state after ActuatorControl() and the start of the input threads
InitMain ==
    /\ mn_pc = "input" /\ mn_exit = "none"
    /\ mn_logger \in BOOLEAN
    /\ act_speed = 0 /\ act_step = 0
    /\ pins = [p \in DirectionPins |-> 0]
    /\ duty = [m \in {"LEFT", "RIGHT"} |-> 0]
    /\ servo_on = TRUE
    /\ mn_log = <<>>

MainIdle ==
    /\ mn_pc = "input" /\ mn_exit = "none"
    /\ mn_logger = FALSE
    /\ act_speed = 0 /\ act_step = 0
    /\ pins = [p \in DirectionPins |-> 0]
    /\ duty = [m \in {"LEFT", "RIGHT"} |-> 0]
    /\ servo_on = TRUE
    /\ mn_log = <<>>

\* calls are recorded once the loop has been left
Logged(op) == IF mn_exit = "none" THEN mn_log ELSE Append(mn_log, op)

\* the loop body from get_control to the call of actuators.set_throttle in
\* execute_step, with the throttle the controller has decided on
ExecuteStep ==
    /\ mn_pc = "input"
    /\ \E spd \in ThrottleArgs : act_speed' = spd
    /\ act_step' = 0
    /\ mn_log' = Logged("set_throttle")
    /\ mn_pc' = "throttle"
    /\ UNCHANGED <<mn_exit, mn_logger, pins, duty, servo_on>>
    /\ UNCHANGED mainOthers

\* the next pi.write of set_throttle
ThrottlePinWrite ==
    /\ mn_pc \in {"throttle", "stop_all"}
    /\ act_step < 4
    /\ LET w == throttle_pin_writes(act_speed)[act_step + 1]
       IN  pins' = [pins EXCEPT ![w[1]] = w[2]]
    /\ act_step' = act_step + 1
    /\ UNCHANGED <<mn_pc, mn_exit, mn_logger, act_speed, duty, servo_on,
                   mn_log>>
    /\ UNCHANGED mainOthers

\* the next set_PWM_dutycycle of set_throttle; after the second one the call
\* returns, to execute_step or to stop_all
ThrottleDutyWrite ==
    /\ mn_pc \in {"throttle", "stop_all"}
    /\ act_step \in {4, 5}
    /\ duty' = [duty EXCEPT ![IF act_step = 4 THEN "LEFT" ELSE "RIGHT"] =
                                pwm_val(act_speed)]
    /\ act_step' = act_step + 1
    /\ mn_pc' = IF act_step = 4 THEN mn_pc
                ELSE IF mn_pc = "throttle" THEN "steering" ELSE "servo_off"
    /\ UNCHANGED <<mn_exit, mn_logger, act_speed, pins, servo_on, mn_log>>
    /\ UNCHANGED mainOthers

\* actuators.set_steering(final_steering) and the rest of execute_step
SetSteering ==
    /\ mn_pc = "steering"
    /\ servo_on' = TRUE
    /\ mn_log' = Logged("set_steering")
    /\ mn_pc' = "waitkey"
    /\ UNCHANGED <<mn_exit, mn_logger, act_speed, act_step, pins, duty>>
    /\ UNCHANGED mainOthers

\* cv2.waitKey(1): 'q' breaks out of the loop, anything else goes on to the
\* sleep and the next iteration
WaitKey ==
    /\ mn_pc = "waitkey"
    /\ \E q \in BOOLEAN :
          /\ mn_exit' = IF q THEN "q" ELSE mn_exit
          /\ mn_pc' = IF q THEN "finally" ELSE "input"
    /\ UNCHANGED <<mn_logger, act_speed, act_step, pins, duty, servo_on,
                   mn_log>>
    /\ UNCHANGED mainOthers

\* Mutant of MainInterrupt: the exception leaves main() without running the
\* finally block.
MainInterrupt_no_finally ==
    /\ mn_pc \in {"input", "throttle", "steering", "waitkey"}
    /\ \E how \in {"ctrl_c", "exception"} : mn_exit' = how
    /\ mn_pc' = "done"
    /\ UNCHANGED <<mn_logger, act_speed, act_step, pins, duty, servo_on,
                   mn_log>>
    /\ UNCHANGED mainOthers

\* KeyboardInterrupt or any other Exception raised inside the try block, at
\* any statement of the loop: the except clause prints, finally follows
MainInterrupt ==
    /\ mn_pc \in {"input", "throttle", "steering", "waitkey"}
    /\ \E how \in {"ctrl_c", "exception"} : mn_exit' = how
    /\ mn_pc' = "finally"
    /\ UNCHANGED <<mn_logger, act_speed, act_step, pins, duty, servo_on,
                   mn_log>>
    /\ UNCHANGED mainOthers

\* finally: actuators.stop_all() up to its call set_throttle(0)
StopAll ==
    /\ mn_pc = "finally"
    /\ mn_log' = Append(mn_log, "stop_all")
    /\ act_speed' = 0 /\ act_step' = 0
    /\ mn_pc' = "stop_all"
    /\ UNCHANGED <<mn_exit, mn_logger, pins, duty, servo_on>>
    /\ UNCHANGED mainOthers

\* the rest of stop_all: set_servo_pulsewidth(pin, 0) and pi.stop()
StopAllRelease ==
    /\ mn_pc = "servo_off"
    /\ servo_on' = FALSE
    /\ mn_pc' = "stop_inputs"
    /\ UNCHANGED <<mn_exit, mn_logger, act_speed, act_step, pins, duty,
                   mn_log>>
    /\ UNCHANGED mainOthers

\* manual_input.stop(); lidar.stop(); camera.stop(); gps_imu.stop()
StopInputs ==
    /\ mn_pc = "stop_inputs"
    /\ mn_log' = mn_log \o <<"manual_input.stop", "lidar.stop", "camera.stop",
                             "gps_imu.stop">>
    /\ mn_pc' = "stop_logger"
    /\ UNCHANGED <<mn_exit, mn_logger, act_speed, act_step, pins, duty,
                   servo_on>>
    /\ UNCHANGED mainOthers

\* if logger: logger.stop()
StopLogger ==
    /\ mn_pc = "stop_logger"
    /\ mn_log' = IF mn_logger THEN Append(mn_log, "logger.stop") ELSE mn_log
    /\ mn_pc' = "done"
    /\ UNCHANGED <<mn_exit, mn_logger, act_speed, act_step, pins, duty,
                   servo_on>>
    /\ UNCHANGED mainOthers

NextMain ==
    \/ ExecuteStep \/ ThrottlePinWrite \/ ThrottleDutyWrite \/ SetSteering
    \/ WaitKey \/ MainInterrupt
    \/ StopAll \/ StopAllRelease \/ StopInputs \/ StopLogger

-----------------------------------------------------------------------------
(* v2/input/manual_input.py: get_control against the input thread, with the  *)
(* keyboard as the source (joystick_connected False, keyboard_active True)   *)

\* the keys _poll_keyboard acts on: the four arrows, the stop key and the
\* steering reset key
ManualKeys == {"up", "down", "left", "right", "s", "a"}

InitManual ==
    /\ mi_throttle = 0 /\ mi_steering = 0
    /\ gc_pc = "idle" /\ gc_local = <<0, 0>> /\ gc_ret = <<0, 0>>
    /\ mi_fresh = {} /\ mi_lost = FALSE

ManualIdle == InitManual

\* _poll_keyboard in the input thread: one key is waiting and is applied with
\* one attribute store
ManualPollKeyboard ==
    /\ \E key \in ManualKeys :
          /\ mi_throttle' = CASE key = "up" -> 10
                              [] key = "down" -> -10
                              [] key = "s" -> 0
                              [] OTHER -> mi_throttle
          /\ mi_steering' = CASE key = "left" -> -10
                              [] key = "right" -> 10
                              [] key = "a" -> 0
                              [] OTHER -> mi_steering
          /\ mi_fresh' = mi_fresh \cup
                            (IF key \in {"up", "down", "s"} THEN {"throttle"}
                             ELSE {"steering"})
    /\ UNCHANGED <<gc_pc, gc_local, gc_ret, mi_lost>>
    /\ UNCHANGED miOthers

\* current_throttle, current_steering = self.throttle, self.steering:
\* the load of self.throttle
GetControlLoadThrottle ==
    /\ gc_pc = "idle"
    /\ gc_local' = <<mi_throttle, gc_local[2]>>
    /\ mi_fresh' = mi_fresh \ {"throttle"}
    /\ gc_pc' = "load_steering"
    /\ UNCHANGED <<mi_throttle, mi_steering, gc_ret, mi_lost>>
    /\ UNCHANGED miOthers

\* ... and the load of self.steering
GetControlLoadSteering ==
    /\ gc_pc = "load_steering"
    /\ gc_local' = <<gc_local[1], mi_steering>>
    /\ mi_fresh' = mi_fresh \ {"steering"}
    /\ gc_pc' = "reset_throttle"
    /\ UNCHANGED <<mi_throttle, mi_steering, gc_ret, mi_lost>>
    /\ UNCHANGED miOthers

\* if not self.joystick_connected and self.keyboard_active:
\*     self.throttle = 0.0
GetControlResetThrottle ==
    /\ gc_pc = "reset_throttle"
    /\ mi_throttle' = 0
    /\ mi_lost' = (mi_lost \/ ("throttle" \in mi_fresh /\ mi_throttle # 0))
    /\ mi_fresh' = mi_fresh \ {"throttle"}
    /\ gc_pc' = "reset_steering"
    /\ UNCHANGED <<mi_steering, gc_local, gc_ret>>
    /\ UNCHANGED miOthers

\*     self.steering = 0.0
\* return current_throttle, current_steering
GetControlResetSteering ==
    /\ gc_pc = "reset_steering"
    /\ mi_steering' = 0
    /\ mi_lost' = (mi_lost \/ ("steering" \in mi_fresh /\ mi_steering # 0))
    /\ mi_fresh' = mi_fresh \ {"steering"}
    /\ gc_ret' = gc_local
    /\ gc_pc' = "idle"
    /\ UNCHANGED <<mi_throttle, gc_local>>
    /\ UNCHANGED miOthers

NextManual ==
    \/ ManualPollKeyboard
    \/ GetControlLoadThrottle \/ GetControlLoadSteering
    \/ GetControlResetThrottle \/ GetControlResetSteering

-----------------------------------------------------------------------------
(* v2/logging/data_logger.py: stop() in the main thread against the run loop *)
(* in the logger thread                                                      *)

\* records handed to log_data in one behaviour
MaxRecords == 3

InitLogger ==
    /\ lg_queue = <<>> /\ lg_running = TRUE
    /\ lg_writer = FALSE /\ lg_file = "open" /\ lg_rows = <<>>
    /\ run_pc = "test" /\ run_data = 0
    /\ stop_pc = "idle"
    /\ lg_next = 1 /\ lg_accepted = {} /\ lg_late_write = FALSE

LoggerIdle == InitLogger

\* log_data(data_dict) from a sensor or controller thread
LoggerLogData ==
    /\ lg_next <= MaxRecords
    /\ lg_next' = lg_next + 1
    /\ IF lg_running
       THEN /\ lg_queue' = Append(lg_queue, lg_next)
            /\ lg_accepted' = IF stop_pc = "idle"
                              THEN lg_accepted \cup {lg_next}
                              ELSE lg_accepted
       ELSE UNCHANGED <<lg_queue, lg_accepted>>
    /\ UNCHANGED <<lg_running, lg_writer, lg_file, lg_rows, run_pc, run_data,
                   stop_pc, lg_late_write>>
    /\ UNCHANGED lgOthers

\* while self.running: ... ; after the loop self.stop(), which returns at
\* once because running is False
RunTest ==
    /\ run_pc = "test"
    /\ run_pc' = IF lg_running THEN "get" ELSE "exit"
    /\ UNCHANGED <<lg_queue, lg_running, lg_writer, lg_file, lg_rows,
                   run_data, stop_pc, lg_next, lg_accepted, lg_late_write>>
    /\ UNCHANGED lgOthers

\* data = self.data_queue.get(timeout=1.0); queue.Empty -> continue
RunGet ==
    /\ run_pc = "get"
    /\ IF lg_queue = <<>>
       THEN /\ run_pc' = "test"
            /\ UNCHANGED <<lg_queue, run_data>>
       ELSE /\ run_data' = Head(lg_queue)
            /\ lg_queue' = Tail(lg_queue)
            /\ run_pc' = "header"
    /\ UNCHANGED <<lg_running, lg_writer, lg_file, lg_rows, stop_pc, lg_next,
                   lg_accepted, lg_late_write>>
    /\ UNCHANGED lgOthers

\* if self.csv_writer is None ...: the DictWriter is created and, at the
\* start of the file, the header written; on a closed file (csv_file None)
\* this raises, `except Exception` prints, and the record is gone
RunHeader ==
    /\ run_pc = "header"
    /\ IF lg_writer THEN /\ run_pc' = "write"
                         /\ UNCHANGED <<lg_writer, run_data>>
       ELSE IF lg_file = "open"
            THEN /\ lg_writer' = TRUE
                 /\ run_pc' = "write"
                 /\ UNCHANGED run_data
            ELSE /\ run_data' = 0
                 /\ run_pc' = "test"
                 /\ UNCHANGED lg_writer
    /\ UNCHANGED <<lg_queue, lg_running, lg_file, lg_rows, stop_pc, lg_next,
                   lg_accepted, lg_late_write>>
    /\ UNCHANGED lgOthers

\* self.csv_writer.writerow(...); self.csv_file.flush(): on a closed file
\* writerow raises ValueError, which `except Exception` prints
RunWriteRow ==
    /\ run_pc = "write"
    /\ IF lg_file = "open"
       THEN /\ lg_rows' = Append(lg_rows, run_data)
            /\ UNCHANGED lg_late_write
       ELSE /\ lg_late_write' = TRUE
            /\ UNCHANGED lg_rows
    /\ run_data' = 0
    /\ run_pc' = "test"
    /\ UNCHANGED <<lg_queue, lg_running, lg_writer, lg_file, stop_pc, lg_next,
                   lg_accepted>>
    /\ UNCHANGED lgOthers

\* stop() called by main: if not self.running: return; self.running = False
StopCall ==
    /\ stop_pc = "idle"
    /\ stop_pc' = IF lg_running THEN "drain" ELSE "done"
    /\ lg_running' = FALSE
    /\ UNCHANGED <<lg_queue, lg_writer, lg_file, lg_rows, run_pc, run_data,
                   lg_next, lg_accepted, lg_late_write>>
    /\ UNCHANGED lgOthers

\* one pass of `while not self.data_queue.empty()`: get_nowait, and writerow
\* only if self.csv_writer is set
StopDrain ==
    /\ stop_pc = "drain"
    /\ IF lg_queue = <<>>
       THEN /\ stop_pc' = "close"
            /\ UNCHANGED <<lg_queue, lg_rows>>
       ELSE /\ lg_queue' = Tail(lg_queue)
            /\ lg_rows' = IF lg_writer THEN Append(lg_rows, Head(lg_queue))
                          ELSE lg_rows
            /\ UNCHANGED stop_pc
    /\ UNCHANGED <<lg_running, lg_writer, lg_file, run_pc, run_data, lg_next,
                   lg_accepted, lg_late_write>>
    /\ UNCHANGED lgOthers

\* self.csv_file.close(); self.csv_file = None
StopClose ==
    /\ stop_pc = "close"
    /\ lg_file' = "closed"
    /\ stop_pc' = "done"
    /\ UNCHANGED <<lg_queue, lg_running, lg_writer, lg_rows, run_pc, run_data,
                   lg_next, lg_accepted, lg_late_write>>
    /\ UNCHANGED lgOthers

NextLogger ==
    \/ LoggerLogData
    \/ RunTest \/ RunGet \/ RunHeader \/ RunWriteRow
    \/ StopCall \/ StopDrain \/ StopClose

-----------------------------------------------------------------------------
(* Specifications                                                            *)

StartApp == InitApp /\ LogicIdle /\ CacheIdle /\ DecoderIdle /\ MixerIdle /\ AxisIdle
    /\ ThreadsIdle /\ CalIdle
    /\ MainIdle
    /\ ManualIdle
    /\ LoggerIdle
SpecApp == StartApp /\ [][NextApp]_vars

\* RpiRobotApp with a motor bus whose writes may fail
NextBus == NextApp \/ MotorWriteFails

SpecBus == StartApp /\ [][NextBus]_vars

StartLogic == InitLogic /\ AppIdle /\ CacheIdle /\ DecoderIdle /\ MixerIdle /\ AxisIdle
    /\ ThreadsIdle /\ CalIdle
    /\ MainIdle
    /\ ManualIdle
    /\ LoggerIdle
SpecLogic == StartLogic /\ [][NextLogic]_vars

StartCache == InitCache /\ AppIdle /\ LogicIdle /\ DecoderIdle /\ MixerIdle /\ AxisIdle
    /\ ThreadsIdle /\ CalIdle
    /\ MainIdle
    /\ ManualIdle
    /\ LoggerIdle
SpecCache == StartCache /\ [][NextCache]_vars

StartDecoder == InitDecoder /\ AppIdle /\ LogicIdle /\ CacheIdle /\ MixerIdle /\ AxisIdle
    /\ ThreadsIdle /\ CalIdle
    /\ MainIdle
    /\ ManualIdle
    /\ LoggerIdle
SpecDecoder == StartDecoder /\ [][NextDecoder]_vars

StartMixer == InitMixer /\ AppIdle /\ LogicIdle /\ CacheIdle /\ DecoderIdle /\ AxisIdle
    /\ ThreadsIdle /\ CalIdle
    /\ MainIdle
    /\ ManualIdle
    /\ LoggerIdle
SpecMixer == StartMixer /\ [][NextMixer]_vars

StartAxis ==
    InitAxis /\ AppIdle /\ LogicIdle /\ CacheIdle /\ DecoderIdle /\ MixerIdle
    /\ ThreadsIdle /\ CalIdle
    /\ MainIdle
    /\ ManualIdle
    /\ LoggerIdle
SpecAxis == StartAxis /\ [][NextAxis]_vars

StartThreads ==
    InitThreads /\ AppIdle /\ LogicIdle /\ CacheIdle /\ DecoderIdle
    /\ MixerIdle /\ AxisIdle /\ CalIdle
    /\ MainIdle
    /\ ManualIdle
    /\ LoggerIdle
SpecThreads == StartThreads /\ [][NextThreads]_vars

StartFrame ==
    InitFrame /\ AppIdle /\ LogicIdle /\ CacheIdle /\ MixerIdle /\ AxisIdle
    /\ ThreadsIdle /\ CalIdle
    /\ MainIdle
    /\ ManualIdle
    /\ LoggerIdle
SpecFrame == StartFrame /\ [][NextDecoder]_vars

StartYaw ==
    InitCache /\ CalIdle /\ AppIdle /\ LogicIdle /\ DecoderIdle /\ MixerIdle
    /\ AxisIdle /\ ThreadsIdle
    /\ MainIdle
    /\ ManualIdle
    /\ LoggerIdle
SpecYaw == StartYaw /\ [][NextYaw]_vars

StartMain ==
    InitMain /\ AppIdle /\ LogicIdle /\ CacheIdle /\ DecoderIdle /\ MixerIdle
    /\ AxisIdle /\ ThreadsIdle /\ CalIdle
    /\ ManualIdle
    /\ LoggerIdle
SpecMain == StartMain /\ [][NextMain]_vars

StartManual ==
    InitManual /\ AppIdle /\ LogicIdle /\ CacheIdle /\ DecoderIdle /\ MixerIdle
    /\ AxisIdle /\ ThreadsIdle /\ CalIdle /\ MainIdle
    /\ LoggerIdle
SpecManual == StartManual /\ [][NextManual]_vars

StartLogger ==
    InitLogger /\ AppIdle /\ LogicIdle /\ CacheIdle /\ DecoderIdle /\ MixerIdle
    /\ AxisIdle /\ ThreadsIdle /\ CalIdle /\ MainIdle /\ ManualIdle
SpecLogger == StartLogger /\ [][NextLogger]_vars

\* Every blocking call of the run loops has a timeout or a sleep of fixed
\* length, so a thread that can take a step eventually takes one.
FairSpecThreads == SpecThreads /\ WF_vars(ThreadRun)


\* The main thread is the only thread of app_rpi.py and every statement of
\* loop_hw returns (the poll is non-blocking, the sleep is bounded), so the
\* thread keeps taking steps until loop_hw has returned.
FairSpecApp == SpecApp /\ WF_vars(NextApp)

-----------------------------------------------------------------------------
(* Claims about RpiRobotApp                                                  *)

\* C2: once handle_event has processed an e_stop event, running stays False
\* and the control loop never starts another iteration: no later poll is
\* made, whatever events arrive.
C2_EStopIsTerminal ==
    [][e_stopped => (e_stopped' /\ ~running' /\ pc' # "poll")]_vars

C2_Witness == e_stopped /\ pc = "done" /\ speed # 0

C4_NoSinkWriteAfterEStop ==
    e_stopped => last_op \notin {"write_angle", "write_lr"}

\* C5 (as claimed): while the mode is an unrecognized one, the throttle and
\* steer that a tick mixes and writes to the motor bus are (0, 0).
C5_UnknownModeZeroIntent ==
    (mode \notin {MODE_BUTTON, MODE_JOYSTICK} /\ last_op = "write_lr")
        => (speed = 0 /\ steer = 0 /\ motor_payload = DrivePayload(0, 0))

\* C6 (as claimed): after a set_mode to JOYSTICK with the joystick not
\* connected the mode is JOYSTICK and every tick writes its sinks from an
\* all-zero intent (throttle, steer and servo axis 0).
C6_DisconnectedJoystickZeroIntent ==
    (input_source = "joystick" /\ ~joy_connected)
        => /\ mode = MODE_JOYSTICK
           /\ last_op \in {"write_angle", "write_lr"}
                => (speed = 0 /\ steer = 0 /\ rx = 0)

-----------------------------------------------------------------------------
(* Claims about LogicController                                              *)

\* a point the claim counts as an obstacle: inside the frontal cone, at a
\* non-zero distance that is not beyond the max range
ClaimedObstacle(angle, dist_mm) ==
    /\ (0 <= angle /\ angle <= ANGLE_RANGE)
         \/ (360 - ANGLE_RANGE <= angle /\ angle < 360)
    /\ dist_mm # 0
    /\ ~(dist_mm > MAX_DIST_MM)

\* C1 (as claimed): _safety_check overrides (is_safe False, throttle 0, steer
\* passed through) exactly when the scan holds a point in the frontal cone
\* with a non-zero distance not beyond the max range and the throttle is
\* positive; otherwise the manual intent passes unmodified.
C1_SafetyOverrideIff ==
    lc_fresh =>
        LET trigger ==
                /\ \E i \in 1..Len(lidar_data) :
                      ClaimedObstacle(lidar_data[i][1], lidar_data[i][2])
                /\ manual_throttle > 0
        IN  /\ (lc_is_safe = FALSE) <=> trigger
            /\ trigger => (act_throttle = 0 /\ act_steering = manual_steering)
            /\ (~trigger /\ lc_mode = "MANUAL") =>
                  (act_throttle = manual_throttle
                     /\ act_steering = manual_steering)

-----------------------------------------------------------------------------
(* Claims about the sensor caches                                            *)

\* C7: a record returned by get_data is, field for field, the initial record
\* or one complete update of that cache; it never combines fields of two
\* different updates, under every interleaving of producer and consumer.
C7_SnapshotNeverTorn ==
    /\ snap.kind = "imu" => snap.data \in cache_hist.imu
    /\ snap.kind = "gps" => snap.data \in cache_hist.gps
    /\ snap.kind = "wit" => snap.data \in cache_hist.wit

\* a snapshot of the first update was returned while the producer thread is
\* inside the handler with the second update in hand
C7_Witness ==
    /\ snap.kind = "imu" /\ snap.data.timestamp = 1
    /\ imu_pc = "acquire" /\ imu_pending.timestamp = 2
    /\ imu_pending.roll # snap.data.roll

-----------------------------------------------------------------------------
(* Claims about the frame decoders                                           *)

\* every byte of the stream has been delivered and handled by both decoders
AllDelivered == fed = Len(stream) /\ note_pc = "idle"

\* the stream is g >= 1 garbage bytes, none of which begins a 0x55 0x61 pair,
\* followed by exactly one frame
GarbageThenFrame(st) ==
    /\ Len(st) > FULL_PACKET_LENGTH
    /\ LET g == Len(st) - FULL_PACKET_LENGTH
       IN  /\ st[g + 1] = HEADER_BYTE /\ st[g + 2] = TYPE_BYTE
           /\ \A i \in 1..g : ~(st[i] = HEADER_BYTE /\ st[i + 1] = TYPE_BYTE)

LastFrame(st) == SubSeq(st, Len(st) - FULL_PACKET_LENGTH + 1, Len(st))

\* C8: from empty buffers, garbage bytes followed by one valid frame give
\* exactly one sample, the sample the frame gives when fed alone, and leave
\* nothing of the garbage in the buffer.
C8_ResyncOneSample ==
    (AllDelivered /\ GarbageThenFrame(stream)) =>
        /\ Len(dm_out) = 1
        /\ dm_out = dm_loop(LastFrame(stream), <<>>).out
        /\ TempBytes = <<>>
        /\ Len(wit_out) = 1
        /\ wit_out = wit_loop(LastFrame(stream), <<>>).out
        /\ data_buffer = <<>>

\* two garbage bytes, the first a 0x55, then the mixed frame, the last
\* notification shorter than a frame
C8_Witness ==
    /\ AllDelivered
    /\ stream = <<85, 0>> \o FrameMixed
    /\ Len(note) < FULL_PACKET_LENGTH
    /\ dm_out = <<processData(SubSeq(FrameMixed, 3, 22))>>

\* C9: however the stream is cut into notifications, the samples emitted once
\* a prefix has been delivered are those emitted when that prefix is fed in
\* one call to a decoder with empty state.
C9_ChunkingIndependent ==
    note_pc = "idle" =>
        /\ dm_out = dm_loop(SubSeq(stream, 1, fed), <<>>).out
        /\ wit_out = wit_loop(SubSeq(stream, 1, fed), <<>>).out

\* a one-byte notification completed the second frame of the stream
C9_Witness ==
    /\ AllDelivered
    /\ Len(note) = 1
    /\ stream = <<85>> \o FrameZero \o FrameMixed
    /\ Len(dm_out) = 2 /\ Len(wit_out) = 2

\* the stream is N >= 1 frames back to back
BackToBack(st) ==
    /\ Len(st) > 0
    /\ Len(st) % FULL_PACKET_LENGTH = 0
    /\ \A k \in 1..(Len(st) \div FULL_PACKET_LENGTH) :
          /\ st[FULL_PACKET_LENGTH * (k - 1) + 1] = HEADER_BYTE
          /\ st[FULL_PACKET_LENGTH * (k - 1) + 2] = TYPE_BYTE

FramePayload(st, k) ==
    SubSeq(st, FULL_PACKET_LENGTH * (k - 1) + 3, FULL_PACKET_LENGTH * k)

\* C10: N frames back to back give exactly N samples, the k-th decoded from
\* the k-th frame, and every byte is consumed, whatever the payloads hold.
C10_BackToBackFrames ==
    (AllDelivered /\ BackToBack(stream)) =>
        LET N == Len(stream) \div FULL_PACKET_LENGTH
        IN  /\ Len(dm_out) = N
            /\ \A k \in 1..N : dm_out[k] = processData(FramePayload(stream, k))
            /\ TempBytes = <<>>
            /\ Len(wit_out) = N
            /\ \A k \in 1..N :
                  wit_out[k] = parse_witmotion_data(FramePayload(stream, k))
            /\ data_buffer = <<>>

\* a frame whose payload begins 0x55 0x61, followed by two more frames
C10_Witness ==
    /\ AllDelivered
    /\ stream = FrameMixed \o FrameMixed \o FrameZero
    /\ Len(dm_out) = 3 /\ Len(wit_out) = 3
    /\ TempBytes = <<>>

-----------------------------------------------------------------------------
(* Claims about mix_skid                                                     *)

\* C11: for throttle and turn in [-1, 1] both components of the pair
\* mix_skid returns, l / m and r / m, lie in [-1, 1].
C11_MixOutputInRange ==
    mx_pc = "done" =>
        /\ Abs(mx_throttle) <= UNIT /\ Abs(mx_turn) <= UNIT
        /\ mx_out.m > 0
        /\ -mx_out.m <= mx_out.l /\ mx_out.l <= mx_out.m
        /\ -mx_out.m <= mx_out.r /\ mx_out.r <= mx_out.m

\* a call in which the sums exceed 1 and the scale is above 1
C11_Witness ==
    mx_pc = "done" /\ mx_out.m > UNIT /\ Abs(mx_throttle + mx_turn) > UNIT

\* the pair returned is ((throttle + turn) / s, (throttle - turn) / s) with
\* s = max(1, |throttle + turn|, |throttle - turn|); s is never below 1 and
\* sums of magnitude at most 1 are returned unmodified
MixReference ==
    mx_pc = "done" =>
        LET a == mx_throttle + mx_turn
            b == mx_throttle - mx_turn
            s == IF Abs(a) >= UNIT /\ Abs(a) >= Abs(b) THEN Abs(a)
                 ELSE IF Abs(b) >= UNIT THEN Abs(b) ELSE UNIT
        IN  /\ s >= UNIT
            /\ mx_out.l = a /\ mx_out.r = b /\ mx_out.m = s
            /\ (Abs(a) <= UNIT /\ Abs(b) <= UNIT) =>
                  (mx_out.m = UNIT /\ mx_out.l = a /\ mx_out.r = b)

\* the call made with these arguments returned the pair (lv, rv)
MixExample(throttle, turn, lv, rv) ==
    (mx_pc = "done" /\ mx_throttle = throttle /\ mx_turn = turn) =>
        (mx_out.m = UNIT /\ mx_out.l = lv /\ mx_out.r = rv)

\* C12 (as claimed): mix_skid equals the reference, and mix(0.5, 0.5) =
\* (1.0, 0.0), mix(1.0, 0.0) = (1.0, 0.0), mix(0.3, -0.3) = (0.0, 0.6).
C12_MixAsClaimed ==
    /\ MixReference
    /\ MixExample(5 * SPEED_STEP, 5 * SPEED_STEP, UNIT, 0)
    /\ MixExample(UNIT, 0, UNIT, 0)
    /\ MixExample(3 * SPEED_STEP, -3 * SPEED_STEP, 0, 6 * SPEED_STEP)

\* C12 (amended): mix_skid equals the reference, and mix(0.5, 0.5) =
\* (1.0, 0.0), mix(1.0, 0.0) = (1.0, 1.0), mix(0.3, -0.3) = (0.0, 0.6).
C12_MixEqualsReference ==
    /\ MixReference
    /\ MixExample(5 * SPEED_STEP, 5 * SPEED_STEP, UNIT, 0)
    /\ MixExample(UNIT, 0, UNIT, UNIT)
    /\ MixExample(3 * SPEED_STEP, -3 * SPEED_STEP, 0, 6 * SPEED_STEP)

\* full throttle with no turn has been mixed
C12_Witness ==
    /\ mx_pc = "done"
    /\ mx_throttle = UNIT /\ mx_turn = 0
    /\ mx_out = [l |-> UNIT, r |-> UNIT, m |-> UNIT]

-----------------------------------------------------------------------------
(* Claims about the control loop's ticks                                     *)

\* the tick that polled the sample axis event in JOYSTICK mode has passed
\* its servo and motor steps
SampleTickDone ==
    /\ pc = "sleep" /\ mode = MODE_JOYSTICK
    /\ tick_axis = SampleAxisEvents

\* C13 (as claimed): in JOYSTICK mode the tick that polls the axis event
\* {x: -0.5, y: 0.8, rx: 0.0} writes mix(0.8, -0.5) to the motor bus and the
\* angle of steering axis 0.0 to the servo.
C13_EndToEndAsClaimed ==
    SampleTickDone =>
        /\ last_op = "write_lr"
        /\ motor_payload = DrivePayload(8 * SPEED_STEP, -5 * SPEED_STEP)
        /\ servo_pw = angle_to_us(90 * UNIT)

\* C13 (amended): that tick leaves throttle -0.8, turn 0.5 and servo axis 0.0
\* in the control state and writes the angle of axis 0.0 to the servo; it
\* writes the motor bus exactly when the send period had elapsed, and then
\* with mix(-0.8, 0.5).
C13_EndToEndNegatedAndRateLimited ==
    SampleTickDone =>
        /\ speed = -8 * SPEED_STEP /\ steer = 5 * SPEED_STEP /\ rx = 0
        /\ tick_servo = 1 /\ servo_pw = angle_to_us(90 * UNIT)
        /\ last_op = "write_lr" =>
              /\ motor_payload = DrivePayload(-8 * SPEED_STEP, 5 * SPEED_STEP)
              /\ motor_payload = write_lr_payload(-11, -50)
              /\ since_send = 0
        /\ last_op # "write_lr" => (since_send < PERIOD_MS /\ gap < PERIOD_MS)

\* the sample tick wrote the motor bus, after an earlier tick had moved the
\* servo axis away from 0
C13_Witness ==
    /\ SampleTickDone /\ last_op = "write_lr"
    /\ axis_states["rx"] # 0
    /\ motor_payload = write_lr_payload(-11, -50)

\* C14: the motor step of a tick writes the motor bus exactly when the time
\* since the previous write has reached the period, and resets that time
\* exactly when it writes; the first tick writes; so two consecutive writes
\* of the loop are at least one period apart.
C14_DrivetrainRateLimited ==
    /\ [][(pc = "motor" /\ pc' = "sleep") =>
             /\ (last_op' = "write_lr") <=> (since_send >= PERIOD_MS)
             /\ (last_op' = "write_lr") => (since_send' = 0)
             /\ (last_op' # "write_lr") =>
                   (since_send' = since_send /\ motor_payload' = motor_payload)
             /\ (last_op' = "write_lr" /\ gap >= 0) => (gap >= PERIOD_MS)]_vars
    /\ []((pc = "motor" /\ gap < 0) => since_send >= PERIOD_MS)

\* a tick that came one sleep after a write and left the motor bus alone
C14_Witness ==
    /\ pc = "sleep" /\ last_op = "none"
    /\ gap = SLEEP_MS /\ since_send = SLEEP_MS
    /\ motor_payload # <<>>

\* C15: every tick writes the servo exactly once, before its motor step, with
\* the pulse of 90 + 80 * rx degrees for the rx the tick holds, whether or not
\* the tick writes the motor bus.
C15_SteeringEveryTick ==
    /\ pc \in {"poll", "servo"} => tick_servo = 0
    /\ pc \in {"motor", "sleep"} =>
          /\ tick_servo = 1
          /\ servo_pw = angle_to_us(90 * UNIT + rx * 80)

\* a tick that wrote the servo for a full-scale axis and skipped the motor bus
C15_Witness ==
    /\ pc = "sleep" /\ last_op = "none" /\ gap >= 0
    /\ tick_servo = 1 /\ rx = UNIT /\ servo_pw = 1944

-----------------------------------------------------------------------------
(* Claims about the axis values of the input sources                         *)

\* C16 (as claimed): for every raw 16-bit axis value the axis value either
\* input source hands to the control state lies in [-1, 1].
C16_AxesWithinUnit ==
    ax_pc = "done" =>
        /\ -UNIT <= ax_js /\ ax_js <= UNIT
        /\ -UNIT <= ax_mi /\ ax_mi <= UNIT

\* C20: an axis value of magnitude below the source's deadzone threshold is
\* reported as exactly 0, and a reported value is never a non-zero value of
\* magnitude below the threshold, for JoystickInput (0.05) and for
\* ManualInput (0.08).
C20_DeadzoneCollapsesToZero ==
    ax_pc = "done" =>
        /\ Abs(ax_raw * 20) < DEADZONE => ax_js = 0
        /\ ax_js # 0 => Abs(ax_js) >= DEADZONE
        /\ Abs(ax_raw * 20) * 100 < MI_DEADZONE_PCT * UNIT => ax_mi = 0
        /\ ax_mi # 0 => Abs(ax_mi) * 100 >= MI_DEADZONE_PCT * UNIT

\* the largest raw value inside the 0.05 deadzone has been converted
C20_Witness ==
    ax_pc = "done" /\ ax_raw = 1638 /\ ax_js = 0 /\ ax_mi = 0

-----------------------------------------------------------------------------
(* Claims about the safety override of LogicController                       *)

\* C17: when the safety check of execute_step triggers (a frontal obstacle
\* while the manual throttle is forward), the throttle and steering written
\* to the actuators are exactly the safety verdict, throttle 0 and the manual
\* steering passed through, in every mode; the mode logic does not run.
C17_SafetyPreemptsModeLogic ==
    lc_fresh =>
        LET obstacle == get_frontal_obstacle_distance(lidar_data, ANGLE_RANGE,
                                                      MAX_DIST_MM)
            trigger == obstacle.found /\ manual_throttle > 0
        IN  /\ lc_is_safe = ~trigger
            /\ trigger => act_throttle = 0 /\ act_steering = manual_steering

\* the override has triggered in AUTO mode with a non-zero manual steering,
\* which the AUTO logic would have replaced by 0
C17_Witness ==
    /\ lc_fresh /\ lc_is_safe = FALSE /\ lc_mode = "AUTO"
    /\ manual_steering # 0 /\ act_steering = manual_steering
    /\ act_throttle = 0

-----------------------------------------------------------------------------
(* Claims about the input sources of RpiRobotApp                             *)

\* C18 (as claimed): in every tick in which the keyboard is the active input
\* source, steer has been reset to 0 when that tick's events are about to be
\* applied, so a steer command of an earlier tick is never still in effect.
C18_KeySteerResetEveryTick ==
    (pc = "poll" /\ input_source = "keyboard") => steer = 0

\* the axes JoystickInput.poll puts in its axis event
TrackedAxes == {"x", "y", "rx"}

\* C19 (as claimed): a poll of the joystick returns an axis event only if one
\* of the tracked axes x, y, rx changed its value in that poll.
C19_AxisEventOnlyOnTrackedChange ==
    [][(PollJoystick /\ tick_axis' # <<>>) =>
          \E n \in TrackedAxes : axis_states'[n] # axis_states[n]]_vars

\* C19 (amended): a poll of the joystick returns an axis event exactly when
\* the axis it read, any axis of the device's axis map, changed its value in
\* that poll; it then returns a single event carrying x, y and rx of the new
\* axis states, and a poll in which no axis value changed returns none.
C19_AxisEventOnAnyAxisChange ==
    [][PollJoystick =>
          /\ (tick_axis' # <<>>) <=> (axis_states' # axis_states)
          /\ Len(tick_axis') <= 1
          /\ tick_axis' # <<>> =>
                /\ tick_axis'[1] = AxisEvent(axis_states')
                /\ DOMAIN tick_axis'[1] = {"type", "x", "y", "rx"}]_vars

\* a poll has returned an axis event while x, y and rx are still at their
\* initial 0 and the untracked axis z is deflected
C19_Witness ==
    /\ pc = "servo" /\ input_source = "joystick" /\ joy_connected
    /\ tick_axis # <<>>
    /\ \A n \in TrackedAxes : axis_states[n] = 0
    /\ axis_states["z"] = UNIT

-----------------------------------------------------------------------------
(* Claims about the emergency stop of RpiRobotApp                            *)

\* some input the operator can give makes this tick's poll return an e_stop
\* event that clears running
EStopPollable ==
    \/ /\ input_source = "keyboard"
       /\ \E key \in Keys :
             ~handle_all(AppState, KeyboardPoll(key)).running
    \/ /\ input_source = "joystick"
       /\ \E rd \in JsReads :
             ~handle_all(AppState,
                         JoystickPoll(joy_connected, axis_states, rd).events).running

\* C21 (as claimed): in every state in which the control loop is running and
\* about to poll, already in the two supported modes and whatever the
\* connection state of the joystick, some e-stop input (key 'x' or joystick
\* button 'b') is polled and stops the loop.
C21_EStopAlwaysDetectable ==
    (pc = "poll" /\ running /\ mode \in {MODE_BUTTON, MODE_JOYSTICK})
        => EStopPollable

-----------------------------------------------------------------------------
(* Claims about the worker threads                                           *)

\* C22 (as claimed): a sensor producer thread never ends its run loop while
\* its running flag is still set; after a connection or I/O failure it
\* backs off and reconnects instead.
C22_ProducerNeverEndsWhileRunning ==
    (th \in {"gps", "lidar", "imu"} /\ th_pc = "exit") => ~th_running

\* C23 (as claimed): a connection or read error of the producer leaves its
\* cache entry untouched, so the entry always is the last successfully
\* stored sample.
C23_CacheKeepsLastGoodSample ==
    th \in {"gps", "lidar"} => th_cache = th_good

\* C24 (as claimed): the number of queued log records never exceeds the
\* bound the queue was constructed with.
C24_LogQueueBounded ==
    th = "logger" => Len(data_queue) <= QUEUE_MAXSIZE

-----------------------------------------------------------------------------
(* Claims about the yaw calibration of ImuSensor                             *)

\* C26 (as claimed): every yaw stored in the inertial cache entry lies in
\* (-180, 180].
C26_YawInHalfOpenUpper ==
    -180 < imu_latest.yaw /\ imu_latest.yaw <= 180

\* C26 (amended): every yaw stored in the inertial cache entry, and every
\* offset set by align_yaw, lies in [-180, 180): -180 is produced (also for
\* a raw yaw plus offset of +180) and +180 never is.
C26_YawInHalfOpenLower ==
    /\ -180 <= imu_latest.yaw /\ imu_latest.yaw < 180
    /\ (cal_op.op = "align" /\ cal_op.ok) =>
          (-180 <= yaw_offset /\ yaw_offset < 180)

\* a raw yaw and an offset adding up to +180 have been stored as -180
C26_Witness ==
    /\ imu_latest.timestamp # 0 /\ imu_pc = "idle"
    /\ raw_yaw + yaw_offset = 180
    /\ imu_latest.yaw = -180

\* C27 (as claimed): whenever the inertial entry is populated, the yaw it
\* exposes is wrap180(raw_yaw + yaw_offset) for the current offset; so right
\* after a successful tare_yaw it is 0 and right after align_yaw(h) it is
\* wrap180(h).
C27_ExposedYawFollowsOffset ==
    imu_latest.timestamp # 0 =>
        imu_latest.yaw = wrap180(raw_yaw + yaw_offset)

\* C28: the inertial entry's timestamp is 0 exactly while no notification
\* has been stored, and a tare_yaw or align_yaw call made while it is 0
\* changes neither yaw_offset nor any other state of the sensor.
C28_CalibrationRefusedOnEmptyEntry ==
    /\ [](imu_latest.timestamp = 0 <=> imu_count = 0)
    /\ [][((TareYaw \/ AlignYaw) /\ imu_latest.timestamp = 0) =>
             UNCHANGED <<yaw_offset, raw_yaw, imu_latest, imu_lock,
                         imu_count>>]_vars
    /\ []((cal_op.op # "none" /\ ~cal_op.ok /\ imu_count = 0) =>
             yaw_offset = 0)

\* align_yaw(180) was called before any notification and changed nothing
C28_Witness ==
    /\ cal_op = [op |-> "align", ok |-> FALSE, heading |-> 180]
    /\ imu_latest = ImuInitial /\ yaw_offset = 0 /\ raw_yaw = 0

-----------------------------------------------------------------------------
(* Claims about the checksum bytes and the sentinel byte of the decoders     *)

\* the frame with its two trailing bytes replaced by zeros, without header
ZeroedTrailer(frame) == SubSeq(frame, 3, 20) \o <<0, 0>>

\* C29: 22 buffered bytes that start 0x55 0x61 are emitted as one sample
\* whatever the two trailing checksum bytes are, and the decoded fields are
\* those of the same frame with the trailing bytes zeroed.
C29_ChecksumNeverRejects ==
    AllDelivered =>
        /\ dm_out = <<processData(ZeroedTrailer(stream))>>
        /\ wit_out = <<parse_witmotion_data(ZeroedTrailer(stream))>>
        /\ TempBytes = <<>> /\ data_buffer = <<>>

\* the mixed frame with trailing bytes 0xFF 0xFF has been decoded by both
C29_Witness ==
    /\ AllDelivered
    /\ stream = SubSeq(FrameMixed, 1, 20) \o <<255, 255>>
    /\ Len(dm_out) = 1 /\ Len(wit_out) = 1

\* the stream is 0x55, 0x55, 0x61 and 20 more bytes
SentinelThenFrame(st) ==
    /\ Len(st) = FULL_PACKET_LENGTH + 1
    /\ st[1] = HEADER_BYTE /\ st[2] = HEADER_BYTE /\ st[3] = TYPE_BYTE

\* C30: a 0x55 followed by a byte other than 0x61 costs the decoder that one
\* byte only: the stream 0x55, 0x55, 0x61, <20 bytes> gives exactly one
\* sample, decoded from the frame that starts at the second 0x55, and in
\* general a leading 0x55 that begins no header changes no sample.
C30_OnlySentinelDropped ==
    /\ (AllDelivered /\ SentinelThenFrame(stream)) =>
          /\ dm_out = <<processData(SubSeq(stream, 4, 23))>>
          /\ wit_out = <<parse_witmotion_data(SubSeq(stream, 4, 23))>>
          /\ TempBytes = <<>> /\ data_buffer = <<>>
    /\ (AllDelivered /\ Len(stream) >= 2 /\ stream[1] = HEADER_BYTE
          /\ stream[2] # TYPE_BYTE /\ BackToBack(Tail(stream))) =>
          /\ Len(dm_out) = Len(stream) \div FULL_PACKET_LENGTH
          /\ Len(wit_out) = Len(stream) \div FULL_PACKET_LENGTH
          /\ dm_out[1] = processData(SubSeq(stream, 4, 23))

\* 0x55 and then the mixed frame, delivered with the second 0x55 arriving in
\* a later notification than the first
C30_Witness ==
    /\ AllDelivered
    /\ stream = <<85>> \o FrameMixed
    /\ Len(note) = FULL_PACKET_LENGTH
    /\ dm_out = <<processData(SubSeq(FrameMixed, 3, 22))>>
    /\ wit_out = <<parse_witmotion_data(SubSeq(FrameMixed, 3, 22))>>

-----------------------------------------------------------------------------
(* Claims about the decoders' loops                                          *)

\* every pass of onDataReceived's loop over buf leaves the loop or shortens
\* the buffer, and the passes end with what dm_loop computes
RECURSIVE DmProgress(_, _)
DmProgress(buf, out) ==
    LET r == dm_iter(buf)
    IN  IF r.done THEN dm_loop(buf, out) = [buf |-> buf, out |-> out]
        ELSE /\ Len(r.buf) < Len(buf)
             /\ DmProgress(r.buf, out \o r.emit)

RECURSIVE WitProgress(_, _)
WitProgress(buf, out) ==
    LET r == wit_iter(buf)
    IN  IF r.done THEN wit_loop(buf, out) = [buf |-> buf, out |-> out]
        ELSE /\ Len(r.buf) < Len(buf)
             /\ WitProgress(r.buf, out \o r.emit)

\* C31: for every input, garbage and cut frames included, each pass of a
\* decoder's loop removes at least one byte from its buffer or leaves the
\* loop, so the call returns, and when it has returned fewer than 22 bytes
\* remain buffered.
C31_DecoderForwardProgress ==
    /\ note_pc = "dm" => DmProgress(TempBytes \o note, <<>>)
    /\ note_pc = "wit" =>
          /\ WitProgress(data_buffer \o note, <<>>)
          /\ Len(TempBytes) < FULL_PACKET_LENGTH
    /\ note_pc = "idle" =>
          /\ Len(TempBytes) < FULL_PACKET_LENGTH
          /\ Len(data_buffer) < FULL_PACKET_LENGTH

\* a garbage byte and a cut frame have been fed: nothing was emitted, the
\* eager decoder keeps the cut frame, the lazy one everything
C31_Witness ==
    /\ AllDelivered
    /\ stream = <<0>> \o FrameCut
    /\ dm_out = <<>> /\ wit_out = <<>>
    /\ TempBytes = FrameCut /\ data_buffer = stream

-----------------------------------------------------------------------------
(* Claims about the actuation sinks of RpiRobotApp                           *)

\* the signed value an 8-bit two's-complement byte stands for
from_byte(b) == IF b >= 128 THEN b - 256 ELSE b

\* C32: every value that reaches the motor bus is one byte, the 8-bit two's
\* complement of an integer of magnitude at most MAX_MOTOR_SPEED; a payload
\* written by the loop carries the truncated, scaled mixer outputs, the left
\* value on channels RL (negated) and FL, the right one on RR and FR
\* (negated).
C32_MotorBytesWithinMax ==
    /\ \A i \in 1..Len(motor_payload) :
          /\ motor_payload[i] \in 0..255
          /\ Abs(from_byte(motor_payload[i])) <= MAX_MOTOR_SPEED
    /\ last_op = "write_lr" =>
          LET lr == mix_skid(speed, steer)
              l_i == TruncDiv(lr.l * MAX_MOTOR_SPEED, lr.m)
              r_i == TruncDiv(lr.r * MAX_MOTOR_SPEED, lr.m)
          IN  /\ Len(motor_payload) = 4
              /\ Abs(l_i) <= MAX_MOTOR_SPEED /\ Abs(r_i) <= MAX_MOTOR_SPEED
              /\ from_byte(motor_payload[1]) = -l_i
              /\ from_byte(motor_payload[2]) = r_i
              /\ from_byte(motor_payload[3]) = l_i
              /\ from_byte(motor_payload[4]) = -r_i

\* full speed ahead has been written: both sides at MAX_MOTOR_SPEED, the
\* negated channels as the byte 206
C32_Witness ==
    /\ last_op = "write_lr"
    /\ speed = UNIT /\ steer = 0
    /\ motor_payload = <<206, 50, 50, 206>>

\* C33 (as claimed): the servo axis is mapped onto the whole angle range:
\* the pulse written for axis 0 is the middle of [SERVO_MIN_US, SERVO_MAX_US],
\* the pulses written for axis -1 and +1 are its two ends, and every pulse
\* lies in that interval.
C33_ServoSpansNativeRange ==
    (pc = "motor" /\ last_op = "write_angle") =>
        /\ servo_pw >= SERVO_MIN_US /\ servo_pw <= SERVO_MAX_US
        /\ rx = 0 => servo_pw = (SERVO_MIN_US + SERVO_MAX_US) \div 2
        /\ rx \in {-UNIT, UNIT} => servo_pw \in {SERVO_MIN_US, SERVO_MAX_US}

\* C34: a motor write of the loop returns to the loop whether or not the bus
\* accepted it: the loop goes on to its sleep with the send time reset and
\* with speed, steer, mode and running as they were; the payload has either
\* reached the bus or the warning was printed and the bus holds what it held;
\* and a tick that comes before the period has elapsed does not call
\* write_lr.
C34_BusFailureSkipsTick ==
    /\ [][(pc = "motor" /\ last_op' = "write_lr") =>
             /\ pc' = "sleep" /\ since_send' = 0
             /\ speed' = speed /\ steer' = steer /\ mode' = mode
             /\ running' = running
             /\ \/ ~bus_warned' /\ motor_payload' = DrivePayload(speed, steer)
                \/ bus_warned' /\ motor_payload' = motor_payload]_vars
    /\ [][(pc = "motor" /\ since_send < PERIOD_MS) =>
             (last_op' # "write_lr" /\ ~bus_warned')]_vars

\* the first write of a running loop failed: the warning was printed, nothing
\* has reached the bus, the send time was reset and the loop is at its sleep
C34_Witness ==
    /\ pc = "sleep" /\ running /\ bus_warned
    /\ motor_payload = <<>> /\ since_send = 0 /\ gap = 0
    /\ speed # 0

\* C36 (as claimed): mode and input source agree in every state: the keyboard
\* exactly in BUTTON mode, the joystick exactly in JOYSTICK mode, no source
\* exactly in any other mode.
C36_ModeMatchesSource ==
    /\ (input_source = "keyboard") <=> (mode = MODE_BUTTON)
    /\ (input_source = "joystick") <=> (mode = MODE_JOYSTICK)
    /\ (input_source = "none") <=> (mode \notin {MODE_BUTTON, MODE_JOYSTICK})

-----------------------------------------------------------------------------
(* Equivalence of the two decoders                                           *)

IsSuffix(a, b) ==
    /\ Len(a) <= Len(b)
    /\ a = SubSeq(b, Len(b) - Len(a) + 1, Len(b))

\* C39: for every byte stream and every chunking, after each chunk both
\* decoders have emitted the same sequence of samples, and the buffer the
\* eager decoder (onDataReceived) keeps is a suffix of the buffer the lazy
\* decoder (_notification_handler) keeps.
C39_DecodersEquivalent ==
    note_pc = "idle" =>
        /\ dm_out = wit_out
        /\ IsSuffix(TempBytes, data_buffer)

\* after a chunk both decoders have emitted the same negative-valued sample
\* while the lazy decoder still holds garbage the eager one has dropped
C39_Witness ==
    /\ note_pc = "idle" /\ fed > 0
    /\ Len(dm_out) >= 1 /\ dm_out = wit_out
    /\ \E i \in 1..9 : dm_out[1][i] < 0
    /\ IsSuffix(TempBytes, data_buffer)
    /\ Len(TempBytes) < Len(data_buffer)

-----------------------------------------------------------------------------
(* Claims about the shutdown of v2/main.py and about the H-bridge pins       *)

ActuatorCommands == {"set_throttle", "set_steering"}

\* C35: however the control loop is left (the q key, Ctrl+C, an exception),
\* the first call main makes is actuators.stop_all(); it has returned, with
\* the motors stopped and the servo released, before an input thread is told
\* to stop and before the logger is stopped; and no actuator command follows
\* it.
C35_StopAllFirstOnEveryExit ==
    /\ mn_exit = "none" => (mn_log = <<>> /\ mn_pc # "done")
    /\ mn_log # <<>> => mn_log[1] = "stop_all"
    /\ \A i \in 2..Len(mn_log) :
          mn_log[i] \notin (ActuatorCommands \cup {"stop_all"})
    /\ mn_pc \in {"stop_inputs", "stop_logger", "done"} =>
          /\ mn_log # <<>>
          /\ \A p \in DirectionPins : pins[p] = 0
          /\ duty = [m \in {"LEFT", "RIGHT"} |-> 0]
          /\ ~servo_on
    /\ mn_pc = "done" =>
          mn_log = <<"stop_all", "manual_input.stop", "lidar.stop",
                     "camera.stop", "gps_imu.stop">>
                   \o (IF mn_logger THEN <<"logger.stop">> ELSE <<>>)

\* the loop was left by Ctrl+C and the shutdown has run to its end: stop_all
\* first, set_throttle(0) completed, the logger stopped last
C35_Witness ==
    /\ mn_pc = "done" /\ mn_exit = "ctrl_c" /\ mn_logger
    /\ act_speed = 0 /\ act_step = 6
    /\ Len(mn_log) = 6 /\ mn_log[1] = "stop_all" /\ mn_log[6] = "logger.stop"

\* C40 (as claimed): the two direction pins of a motor are never both high,
\* between the pin writes of set_throttle included; and when set_throttle
\* has returned the pins are (1, 0) for a positive speed, (0, 1) for a
\* negative one, (0, 0) for zero, with a duty cycle in 0..255.
C40_PinsNeverBothHigh ==
    /\ ~(pins["LEFT_IN1"] = 1 /\ pins["LEFT_IN2"] = 1)
    /\ ~(pins["RIGHT_IN1"] = 1 /\ pins["RIGHT_IN2"] = 1)
    /\ act_step = 6 =>
          /\ \A m \in {"LEFT", "RIGHT"} : duty[m] \in 0..255
          /\ pins = [p \in DirectionPins |->
                        IF p \in {"LEFT_IN1", "RIGHT_IN1"}
                        THEN (IF act_speed > 0 THEN 1 ELSE 0)
                        ELSE (IF act_speed < 0 THEN 1 ELSE 0)]

-----------------------------------------------------------------------------
(* Claim about ManualInput.get_control                                       *)

\* C37 (as claimed): in keyboard mode the read-then-reset of get_control
\* never loses a command: it never resets a field over a non-zero value that
\* a key has written and that no get_control has read.
C37_NoCommandLost == ~mi_lost

-----------------------------------------------------------------------------
(* Claim about the shutdown of DataLogger                                    *)

\* the number of times record r was written to the file
TimesWritten(r) == Cardinality({i \in 1..Len(lg_rows) : lg_rows[i] = r})

\* C38 (as claimed): under every interleaving of stop() with the run loop,
\* no write is attempted on the file after stop() has closed it, no record is
\* written twice, and once stop() has returned and the logger thread has left
\* its loop every record log_data queued before stop() was called has been
\* written exactly once.
C38_ShutdownWritesEveryRecordOnce ==
    /\ ~lg_late_write
    /\ \A r \in 1..MaxRecords : TimesWritten(r) <= 1
    /\ (stop_pc = "done" /\ run_pc = "exit") =>
          \A r \in lg_accepted : TimesWritten(r) = 1

=============================================================================
